---------------------------- MODULE Spec2Model ----------------------------
(***************************************************************************)
(* A model of torifune: sub-screen stacking (graphics/object/sub_screen.rs),*)
(* position functions and effect lists (graphics/object.rs) and the input  *)
(* listeners (device.rs), the drawables' draw (graphics.rs, object.rs,     *)
(* object/*.rs), the debug overlay (debug.rs) and the tile batch            *)
(* (object/tile_batch.rs).                                                  *)
(*                                                                         *)
(* Each subsystem has its own specification (SpecScreen, SpecEffect,       *)
(* SpecMove, SpecKeyboard, SpecMouse); the variables of the other          *)
(* subsystems keep their initial values.                                    *)
(*                                                                         *)
(* Rust's Option<T> is modelled as a sequence of length at most one:       *)
(* None is << >> and Some(x) is << x >>.                                   *)
(***************************************************************************)
EXTENDS Integers, Sequences, FiniteSets, TLC

VARIABLES
    \* ---- sub_screen.rs: thread-local stacking state and the host context
    target_screen,   \* TARGET_SCREEN: Option<SubScreen>
    screen_stack,    \* SCREEN_STACK: Vec<SubScreen>
    canvas,          \* the canvas bound in the ggez context (None: the window)
    balanced,        \* history: the target slot seen by each stack_screen not yet popped
    screen_call,     \* history: the last call, its argument, result and pre-state
    \* ---- object.rs: EffectableWrap
    effects_list,    \* geffect_essential.effects_list: Vec<GenericEffectFn>
    eff_object,      \* movable_object: the wrapped object the effects act on
    next_effect,     \* the number of closures the caller has created so far
    finished,        \* history: the closures that signaled EffectFinish in an earlier effect call
    effect_call,     \* history: the last call and the closure invocations it made
    \* ---- object.rs: a movable object (possibly inside an EffectableWrap)
    movable,         \* the object: its kind, mv_essential, birth_time and position
    installed,       \* history: the call that installed the position function, and its clock value
                     \* (born is the clock value the object was created at)
    move_call,       \* history: the last call, its arguments, pre-state and outcome
    \* ---- device.rs: KeyboardListener
    keyboard,        \* the listener: devices, listening, key_map, event_handlers
                     \* (made_by names its constructor, registered counts the
                     \* handlers pushed so far)
    kb_call,         \* history: the last call, the host's pressed keys, pre-state and dispatches
    kb_trace,        \* history: the dispatch logs of the first updates of a new listener
                     \* (kept by the fresh-listener scenario only)
    \* ---- device.rs: MouseListener
    mouse,           \* the listener: last_clicked, button_map, event_handlers
    ms_call,         \* history: the last call, the host's buttons and cursor, pre-state and dispatches
    clicked_at,      \* history: per button, the cursor position polled by the latest update
                     \* that saw the button go from pressed to released ((0, 0) before any)
    ms_trace,        \* history: the dispatch logs of the first updates of a new listener
                     \* (kept by the fresh-listener scenario only)
    \* ---- device/mod.rs: the older MouseListener
    old_mouse,       \* the listener: last_clicked, button_map, event_handlers
    old_ms_call,     \* history: the last call, the host's buttons and cursor, pre-state and dispatches
    \* ---- graphics.rs, object.rs, object/*.rs: one DrawableComponent
    drawable,        \* the object: its kinds (wrappers first), its visible flag, its parts
    draw_call,       \* history: the last call, the visibility it found, the host calls it issued
    \* ---- debug.rs: DEBUG_SCREEN
    debug_screen,    \* Option<DebugScreen>: text_limit and the lines of text
    debug_call,      \* history: the last call and the lines pushed since debug_screen_init
    \* ---- object/tile_batch.rs: TileBatch
    tile_batch,      \* image_size, tile_size, tile_size_ratio_float, the queued sprites
    tile_call,       \* history: the last call, its tile position, the build, the sprites before
    \* ---- graphics.rs, object.rs: the depth comparators
    depth_list,      \* the caller's list of drawables: each an id and its drawing depth
    depth_call,      \* history: the last call, its arguments, its results, the list before
    \* ---- coordinate-offset stacking (graphics/draw.rs)
    draw_screen_stack,\* SCREEN_STACK of draw.rs
    draw_target_screen,\* TARGET_SCREEN of draw.rs
    offset_saved,    \* history: per open stack_screen, the target before it and its argument
    offset_call,     \* history: the last call of the offset stacking
    \* ---- ScheduledEvent (core.rs)
    sched_event,     \* the ScheduledEvent, none before new
    event_made,      \* history: the arguments new was given
    event_invoked,   \* history: the calls of the event's function, in order
    event_call       \* history: the last ScheduledEvent call and what it returned

screen_vars == <<target_screen, screen_stack, canvas, balanced, screen_call>>

effect_vars == <<effects_list, eff_object, next_effect, finished, effect_call>>

move_vars == <<movable, installed, move_call>>

keyboard_vars == <<keyboard, kb_call, kb_trace>>

mouse_vars == <<mouse, ms_call, clicked_at, ms_trace>>

old_mouse_vars == <<old_mouse, old_ms_call>>

draw_vars == <<drawable, draw_call>>

debug_vars == <<debug_screen, debug_call>>

tile_vars == <<tile_batch, tile_call>>

depth_vars == <<depth_list, depth_call>>

offset_vars == <<draw_screen_stack, draw_target_screen, offset_saved, offset_call>>

event_vars == <<sched_event, event_made, event_invoked, event_call>>

vars == <<screen_vars, effect_vars, move_vars, keyboard_vars, mouse_vars, old_mouse_vars,
          draw_vars, debug_vars, tile_vars,
          depth_vars, offset_vars, event_vars>>

\* A step of one subsystem leaves the others alone.
OnlyScreen == UNCHANGED <<effect_vars, move_vars, keyboard_vars, mouse_vars, old_mouse_vars,
                          draw_vars, debug_vars, tile_vars,
          depth_vars, offset_vars, event_vars>>

OnlyEffect == UNCHANGED <<screen_vars, move_vars, keyboard_vars, mouse_vars, old_mouse_vars,
                          draw_vars, debug_vars, tile_vars,
          depth_vars, offset_vars, event_vars>>

OnlyMove == UNCHANGED <<screen_vars, effect_vars, keyboard_vars, mouse_vars, old_mouse_vars,
                        draw_vars, debug_vars, tile_vars,
          depth_vars, offset_vars, event_vars>>

OnlyKeyboard == UNCHANGED <<screen_vars, effect_vars, move_vars, mouse_vars, old_mouse_vars,
                            draw_vars, debug_vars, tile_vars,
          depth_vars, offset_vars, event_vars>>

OnlyMouse == UNCHANGED <<screen_vars, effect_vars, move_vars, keyboard_vars, old_mouse_vars,
                         draw_vars, debug_vars, tile_vars,
          depth_vars, offset_vars, event_vars>>

OnlyDraw == UNCHANGED <<screen_vars, effect_vars, move_vars, keyboard_vars, mouse_vars,
                        old_mouse_vars, debug_vars, tile_vars,
          depth_vars, offset_vars, event_vars>>

OnlyDebug == UNCHANGED <<screen_vars, effect_vars, move_vars, keyboard_vars, mouse_vars,
                         old_mouse_vars, draw_vars, tile_vars,
          depth_vars, offset_vars, event_vars>>

OnlyTile == UNCHANGED <<screen_vars, effect_vars, move_vars, keyboard_vars, mouse_vars,
                        old_mouse_vars, draw_vars, debug_vars,
          depth_vars, offset_vars, event_vars>>

OnlyOldMouse == UNCHANGED <<screen_vars, effect_vars, move_vars, keyboard_vars, mouse_vars,
                            draw_vars, debug_vars, tile_vars,
          depth_vars, offset_vars, event_vars>>

OnlyDepth == UNCHANGED <<screen_vars, effect_vars, move_vars, keyboard_vars, mouse_vars, old_mouse_vars, draw_vars, debug_vars, tile_vars,
          offset_vars, event_vars>>

OnlyOffset == UNCHANGED <<screen_vars, effect_vars, move_vars, keyboard_vars, mouse_vars, old_mouse_vars, draw_vars, debug_vars, tile_vars, depth_vars, event_vars>>

OnlyEvent == UNCHANGED <<screen_vars, effect_vars, move_vars, keyboard_vars, mouse_vars, old_mouse_vars, draw_vars, debug_vars, tile_vars, depth_vars, offset_vars>>

None == << >>

Some(x) == << x >>

Last(s) == s[Len(s)]

Front(s) == SubSeq(s, 1, Len(s) - 1)

(***************************************************************************)
(* Sub-screen stacking                                                      *)
(***************************************************************************)

\* The SubScreen values the caller owns (a clone shares the canvas, so a
\* screen is identified by its canvas).
NumScreens == 2

\* The depth to which the caller nests stack_screen.
MaxStack == 3

Screens == 1..NumScreens

\* reset_stacking_screen: replace the current-target slot, return its old content.
reset_stacking_screen(slot, new_screen) ==
    [target |-> new_screen, ret |-> slot]

\* setup_new_drawing_target / setup_poped_drawing_target: bind the screen's canvas.
setup_drawing_target(screen) == Some(screen)

\* stack_screen: bind the new canvas, swap the slot, push the old target if any.
stack_screen(slot, stack, new_screen) ==
    LET r == reset_stacking_screen(slot, Some(new_screen))
        last_screen == r.ret
    IN  [canvas |-> setup_drawing_target(new_screen),
         target |-> r.target,
         stack  |-> IF last_screen # None
                    THEN Append(stack, last_screen[1])
                    ELSE stack]

\* A fallback that unbinds the canvas but leaves the slot as it is.
make_none_draw_target_keeps_slot(slot) == [canvas |-> None, target |-> slot]

\* make_none_draw_target: empty the slot and unbind the canvas.
make_none_draw_target(slot) ==
    [canvas |-> None, target |-> reset_stacking_screen(slot, None).target]

\* The value pop_screen returns when it popped a screen: the result of
\* reset_stacking_screen, which is the slot's previous content.
pop_screen_result_returns_popped(slot, popped) == popped

pop_screen_result(slot, popped) == reset_stacking_screen(slot, popped).ret

\* pop_screen: pop the stack; re-activate the popped screen or fall back to the window.
pop_screen(slot, stack) ==
    LET last_cur_screen == IF stack = << >> THEN None ELSE Some(Last(stack))
        rest == IF stack = << >> THEN stack ELSE Front(stack)
    IN  IF last_cur_screen # None
        THEN [canvas |-> setup_drawing_target(last_cur_screen[1]),
              target |-> reset_stacking_screen(slot, last_cur_screen).target,
              stack  |-> rest,
              ret    |-> pop_screen_result(slot, last_cur_screen)]
        ELSE [canvas |-> make_none_draw_target(slot).canvas,
              target |-> make_none_draw_target(slot).target,
              stack  |-> rest,
              ret    |-> None]

ScreenCall(op, arg, ret, pre_target, popped, restore) ==
    [op |-> op, arg |-> arg, ret |-> ret, pre_target |-> pre_target,
     popped |-> popped, restore |-> restore]

InitScreen ==
    /\ target_screen = None
    /\ screen_stack = << >>
    /\ canvas = None
    /\ balanced = << >>
    /\ screen_call = ScreenCall("init", None, None, None, None, None)

StackScreen(s) ==
    /\ Len(screen_stack) < MaxStack
    /\ LET n == stack_screen(target_screen, screen_stack, s)
       IN  /\ target_screen' = n.target
           /\ screen_stack' = n.stack
           /\ canvas' = n.canvas
    /\ balanced' = Append(balanced, target_screen)
    /\ screen_call' = ScreenCall("stack_screen", Some(s), None, target_screen, None, None)
    /\ OnlyScreen

PopScreen ==
    /\ LET n == pop_screen(target_screen, screen_stack)
       IN  /\ target_screen' = n.target
           /\ screen_stack' = n.stack
           /\ canvas' = n.canvas
           /\ screen_call' =
                ScreenCall("pop_screen", None, n.ret, target_screen,
                           IF screen_stack = << >> THEN None ELSE Some(Last(screen_stack)),
                           IF balanced = << >> THEN None ELSE Some(Last(balanced)))
    /\ balanced' = IF balanced = << >> THEN balanced ELSE Front(balanced)
    /\ OnlyScreen

\* A direct call of the public reset_stacking_screen: it ends every open
\* stack_screen/pop_screen bracket (the sequence is no longer one of
\* stack_screen and pop_screen calls only).
ResetStackingScreen(new_screen) ==
    /\ LET r == reset_stacking_screen(target_screen, new_screen)
       IN  /\ target_screen' = r.target
           /\ screen_call' = ScreenCall("reset_stacking_screen", new_screen, r.ret,
                                        target_screen, None, None)
    /\ balanced' = << >>
    /\ UNCHANGED <<screen_stack, canvas>>
    /\ OnlyScreen

NextScreen ==
    \/ \E s \in Screens : StackScreen(s)
    \/ PopScreen
    \/ \E o \in {None} \cup {Some(s) : s \in Screens} : ResetStackingScreen(o)



(***************************************************************************)
(* EffectableWrap: the effect list                                          *)
(***************************************************************************)

\* The closures the caller creates over the life of the wrapper.
MaxEffects == 3

\* The x coordinates the wrapped object takes.
MaxX == 4

\* The clock values the caller passes.
MaxClock == 3

\* The x coordinate at which a "slide" closure reports EffectFinish.
SlideGoal == 2

\* The clock value from which a "timer" closure reports EffectFinish.
TimerDeadline == 2

Clock == 0..MaxClock

EffectContinue == "EffectContinue"

EffectFinish == "EffectFinish"

\* The caller's closures (GenericEffectFn). Each gets the wrapped object
\* mutably and the clock:
\*   slide: moves the object one step right, finishes when it stands on SlideGoal;
\*   timer: leaves the object alone, finishes from TimerDeadline on;
\*   once:  leaves the object alone, finishes at once.
EffectKinds == {"slide", "timer", "once"}

\* One invocation (f)(&mut self.movable_object, ctx, t): the object after it
\* and the status it returns.
CallEffect(f, obj, t) ==
    CASE f.kind = "slide" ->
            [obj |-> [obj EXCEPT !.x = @ + 1],
             status |-> IF obj.x + 1 = SlideGoal THEN EffectFinish ELSE EffectContinue]
      [] f.kind = "timer" ->
            [obj |-> obj,
             status |-> IF t >= TimerDeadline THEN EffectFinish ELSE EffectContinue]
      [] OTHER ->
            [obj |-> obj, status |-> EffectFinish]

\* for f in &effects_list { (f)(&mut movable_object, ctx, t); }: every closure
\* is invoked in order and its status is dropped.
RECURSIVE effect_for_loop(_, _, _, _, _)
effect_for_loop(list, i, obj, t, log) ==
    IF i > Len(list)
    THEN [obj |-> obj, log |-> log]
    ELSE LET r == CallEffect(list[i], obj, t)
         IN  effect_for_loop(list, i + 1, r.obj, t,
                             Append(log, [id |-> list[i].id, status |-> r.status]))

\* effects_list.retain(|f| (f)(movable, ctx, t) != EffectFinish): every closure
\* is invoked in order and kept unless this invocation returns EffectFinish.
RECURSIVE effect_retain(_, _, _, _, _, _)
effect_retain(list, i, obj, t, log, kept) ==
    IF i > Len(list)
    THEN [obj |-> obj, log |-> log, list |-> kept]
    ELSE LET r == CallEffect(list[i], obj, t)
         IN  effect_retain(list, i + 1, r.obj, t,
                           Append(log, [id |-> list[i].id, status |-> r.status]),
                           IF r.status # EffectFinish THEN Append(kept, list[i]) ELSE kept)

\* EffectableWrap::effect: the for loop, then the retain.
effect(list, obj, t) ==
    LET first == effect_for_loop(list, 1, obj, t, << >>)
    IN  effect_retain(list, 1, first.obj, t, first.log, << >>)

\* The closures of `kinds`, numbered from `from` in creation order.
NewEffects(kinds, from) ==
    [i \in 1..Len(kinds) |-> [id |-> from + i, kind |-> kinds[i]]]

\* An add_effect that puts the new effects in front of the queued ones.
add_effect_in_front(list, new) == new \o list

\* HasGenericEffect::add_effect: effects_list.extend(effect).
add_effect(list, new) == list \o new

\* HasGenericEffect::clear_effect: effects_list.clear().
clear_effect(list) == << >>

Ids(list) == [i \in 1..Len(list) |-> list[i].id]

\* The closures of `log` that returned EffectFinish in some invocation.
Signaled(log) == {log[i].id : i \in {j \in 1..Len(log) : log[j].status = EffectFinish}}

EffectCall(op, t, pre_list, log) ==
    [op |-> op, t |-> t, pre_list |-> pre_list, log |-> log, earlier |-> finished]

\* EffectableWrap::new(movable_object, Vec::new()) over an object at x = 0.
InitEffect ==
    /\ effects_list = << >>
    /\ eff_object = [x |-> 0]
    /\ next_effect = 0
    /\ finished = {}
    /\ effect_call = EffectCall("new", 0, << >>, << >>)

AddEffect(kinds) ==
    /\ next_effect + Len(kinds) <= MaxEffects
    /\ effects_list' = add_effect(effects_list, NewEffects(kinds, next_effect))
    /\ next_effect' = next_effect + Len(kinds)
    /\ effect_call' = EffectCall("add_effect", 0, effects_list, << >>)
    /\ UNCHANGED <<eff_object, finished>>
    /\ OnlyEffect

ClearEffect ==
    /\ effects_list' = clear_effect(effects_list)
    /\ effect_call' = EffectCall("clear_effect", 0, effects_list, << >>)
    /\ UNCHANGED <<eff_object, next_effect, finished>>
    /\ OnlyEffect

Effect(t) ==
    LET r == effect(effects_list, eff_object, t)
    IN  /\ r.obj.x <= MaxX
        /\ effects_list' = r.list
        /\ eff_object' = r.obj
        /\ effect_call' = EffectCall("effect", t, effects_list, r.log)
        /\ finished' = finished \cup Signaled(r.log)
        /\ UNCHANGED next_effect
        /\ OnlyEffect

\* DrawableObject::set_position through the wrapper.
EffectSetPosition(x) ==
    /\ eff_object' = [eff_object EXCEPT !.x = x]
    /\ effect_call' = EffectCall("set_position", 0, effects_list, << >>)
    /\ UNCHANGED <<effects_list, next_effect, finished>>
    /\ OnlyEffect

NextEffect ==
    \/ \E kinds \in UNION {[1..n -> EffectKinds] : n \in 1..2} : AddEffect(kinds)
    \/ ClearEffect
    \/ \E t \in Clock : Effect(t)
    \/ \E x \in 0..MaxX : EffectSetPosition(x)

(***************************************************************************)
(* Movable objects: MovableUniTexture, MovableText, MovableWrap and the     *)
(* EffectableWrap around one of them                                        *)
(***************************************************************************)

\* Clock is u64. The model's clock runs over 0..MaxClock, and the unsigned
\* subtraction wraps modulo ClockModulus, which stands for 2^64 at this scale.
ClockModulus == MaxClock + 1

MovableKinds == {"MovableUniTexture", "MovableText", "MovableWrap"}

\* The caller's position functions, Fn(&dyn MovableObject, Clock) -> Point2f:
\*   linear: the point (elapsed, 0);
\*   drift:  one step diagonally from where the object stands.
MoveFuncs == {"linear", "drift"}

\* One invocation move_func(self, elapsed): the point it returns.
MoveFn(f, obj, elapsed) ==
    IF f = "linear"
    THEN <<elapsed, 0>>
    ELSE <<obj.position[1] + 1, obj.position[2] + 1>>

\* MovableUniTexture::new, MovableText::new, MovableWrap::new: the position
\* function and its set time go to MovableEssential::new(mf, now, pos);
\* MovableWrap has no birth_time field.
movable_new(kind, wrapped, mf, pos, now) ==
    [kind |-> kind,
     wrapped |-> wrapped,
     move_func |-> mf,
     mf_set_time |-> now,
     birth_time |-> IF kind = "MovableWrap" THEN None ELSE Some(now),
     position |-> pos,
     alive |-> TRUE]

\* The Clock subtraction t - mf_set_time. With overflow checks (a debug
\* build) an underflow panics; without them the result wraps.
clock_sub(t, set_time, overflow_checks) ==
    IF t >= set_time
    THEN [panic |-> FALSE, value |-> t - set_time]
    ELSE IF overflow_checks
         THEN [panic |-> TRUE, value |-> 0]
         ELSE [panic |-> FALSE, value |-> t - set_time + ClockModulus]

\* A position function that is given the absolute clock value.
move_with_func_absolute(m, t, overflow_checks) ==
    IF m.move_func # None
    THEN [m |-> [m EXCEPT !.position = MoveFn(m.move_func[1], m, t)],
          called |-> <<[f |-> m.move_func[1], elapsed |-> t, at |-> m.position]>>]
    ELSE [m |-> m, called |-> << >>]

\* A position function that is run even when none is installed.
move_with_func_no_stop_check(m, t, overflow_checks) ==
    LET f == IF m.move_func # None THEN m.move_func[1] ELSE "linear"
        e == clock_sub(t, m.mf_set_time, FALSE).value
    IN  [m |-> [m EXCEPT !.position = MoveFn(f, m, e)],
         called |-> <<[f |-> f, elapsed |-> e, at |-> m.position]>>]

\* move_with_func of MovableUniTexture, MovableText and MovableWrap (the three
\* bodies are the same): with a function installed, call it with the object
\* and t - mf_set_time and set the position to the result.
move_with_func(m, t, overflow_checks) ==
    LET not_stop == m.move_func # None
        e == clock_sub(t, m.mf_set_time, overflow_checks)
    IN  IF not_stop
        THEN IF e.panic
             THEN [m |-> [m EXCEPT !.alive = FALSE], called |-> << >>]
             ELSE [m |-> [m EXCEPT !.position = MoveFn(m.move_func[1], m, e.value)],
                   called |-> <<[f |-> m.move_func[1], elapsed |-> e.value,
                                 at |-> m.position]>>]
        ELSE [m |-> m, called |-> << >>]

\* EffectableWrap::move_with_func: self.movable_object.move_with_func(t).
effectable_move_with_func(m, t, overflow_checks) ==
    move_with_func(m, t, overflow_checks)

\* An override that keeps the old set time.
override_move_func_keeps_time(m, move_fn, now) ==
    [m EXCEPT !.move_func = move_fn]

\* override_move_func of the three types: replace the function, reset the set time.
override_move_func(m, move_fn, now) ==
    [m EXCEPT !.move_func = move_fn, !.mf_set_time = now]

\* EffectableWrap::override_move_func: delegates.
effectable_override_move_func(m, move_fn, now) ==
    override_move_func(m, move_fn, now)

\* mf_start_timing: mv_essential.mf_set_time (EffectableWrap delegates).
mf_start_timing(m) == m.mf_set_time

\* is_stop: mv_essential.move_func.is_none() (EffectableWrap delegates).
is_stop(m) == m.move_func = None

\* get_birth_time: the birth_time field; MovableWrap returns mf_set_time.
get_birth_time(m) ==
    IF m.kind = "MovableWrap" THEN m.mf_set_time ELSE m.birth_time[1]

MoveCall(op, t, f, called, outcome) ==
    [op |-> op, t |-> t, f |-> f, called |-> called, outcome |-> outcome,
     pre |-> movable, pre_installed |-> installed]

\* No movable object exists yet.
InitMove ==
    /\ movable = [kind |-> "none", wrapped |-> FALSE, move_func |-> None,
                  mf_set_time |-> 0, birth_time |-> None, position |-> <<0, 0>>,
                  alive |-> FALSE]
    /\ move_call = [op |-> "none", t |-> 0, f |-> None, called |-> << >>,
                    outcome |-> "ok", pre |-> << >>, pre_installed |-> << >>]
    /\ installed = [by |-> "none", f |-> None, now |-> 0, born |-> 0]

OptionalMoveFuncs == {None} \cup {Some(f) : f \in MoveFuncs}

\* The constructor, possibly followed by EffectableWrap::new around the object.
MovableNew(kind, wrapped, mf, now) ==
    /\ movable.kind = "none"
    /\ movable' = movable_new(kind, wrapped, mf, <<0, 0>>, now)
    /\ move_call' = MoveCall("new", now, mf, << >>, "ok")
    /\ installed' = [by |-> "new", f |-> mf, now |-> now, born |-> now]
    /\ OnlyMove

MoveWithFunc(t, overflow_checks) ==
    /\ movable.alive
    /\ LET r == IF movable.wrapped
                THEN effectable_move_with_func(movable, t, overflow_checks)
                ELSE move_with_func(movable, t, overflow_checks)
       IN  /\ r.m.position[1] <= MaxX
           /\ r.m.position[2] <= MaxX
           /\ movable' = r.m
           /\ move_call' = MoveCall("move_with_func", t, None, r.called,
                                    IF r.m.alive THEN "ok" ELSE "panic")
    /\ UNCHANGED installed
    /\ OnlyMove

OverrideMoveFunc(mf, now) ==
    /\ movable.alive
    /\ movable' = IF movable.wrapped
                  THEN effectable_override_move_func(movable, mf, now)
                  ELSE override_move_func(movable, mf, now)
    /\ move_call' = MoveCall("override_move_func", now, mf, << >>, "ok")
    /\ installed' = [by |-> "override_move_func", f |-> mf, now |-> now,
                      born |-> installed.born]
    /\ OnlyMove

NextMove ==
    \/ \E kind \in MovableKinds, wrapped \in BOOLEAN, mf \in OptionalMoveFuncs, now \in Clock :
            MovableNew(kind, wrapped, mf, now)
    \/ \E t \in Clock, overflow_checks \in BOOLEAN : MoveWithFunc(t, overflow_checks)
    \/ \E mf \in OptionalMoveFuncs, now \in Clock : OverrideMoveFunc(mf, now)

(***************************************************************************)
(* KeyboardListener                                                         *)
(***************************************************************************)

\* VirtualKey discriminants: Left = 0, Right = 1, ..., Unknown = 24.
VK_Left == 0

VK_Right == 1

VK_Unknown == 24

VirtualKeys == 0..VK_Unknown

\* VirtualKey::from_i32: 0..23 are the named keys, anything else is Unknown.
from_i32(i) == IF i \in 0..(VK_Unknown - 1) THEN i ELSE VK_Unknown

KeyboardEvents == {"Typed", "FirstPressed", "KeepPressed", "KeepReleased", "Unknown"}

\* The handlers the caller registers over the life of a listener.
MaxHandlers == 2

\* The length of the listening list given to new_masked.
MaxListening == 2

\* The keys the user touches, and the keys named in masks and registrations.
HostKeys == {VK_Left, VK_Right}

DeviceLists == {<<"GenericKeyboard">>, <<"PS3Controller", "GenericKeyboard">>}

\* vkey_input_check: the generic keyboard reports a named key as pressed when
\* its key code (or modifier) is down and Unknown as never pressed
\* (positive_logic); the PS3 controller is not implemented and reports Unknown.
vkey_input_check(pressed, device, vkey) ==
    IF device = "GenericKeyboard"
    THEN IF vkey # VK_Unknown /\ vkey \in pressed THEN "Pressed" ELSE "Released"
    ELSE "Unknown"

\* current_key_status: Pressed if some device reports Pressed, else Released.
current_key_status(devices, pressed, vkey) ==
    IF \E i \in 1..Len(devices) : vkey_input_check(pressed, devices[i], vkey) = "Pressed"
    THEN "Pressed"
    ELSE "Released"

\* A classification with the two edges exchanged.
key_event_edges_swapped(current_state, stored) ==
    IF current_state # stored
    THEN CASE current_state = "Pressed" -> "Typed"
           [] current_state = "Released" -> "FirstPressed"
           [] OTHER -> "Unknown"
    ELSE CASE current_state = "Pressed" -> "KeepPressed"
           [] current_state = "Released" -> "KeepReleased"
           [] OTHER -> "Unknown"

\* A classification that takes a key going down for a key held down.
key_event_press_is_keep(current_state, stored) ==
    CASE current_state = "Pressed" -> "KeepPressed"
      [] current_state = "Released" /\ stored = "Pressed" -> "Typed"
      [] current_state = "Released" /\ stored = "Released" -> "KeepReleased"
      [] OTHER -> "Unknown"

\* flush_key_event, the event: the polled state against key_map[vkey].
key_event(current_state, stored) ==
    IF current_state # stored
    THEN CASE current_state = "Pressed" -> "FirstPressed"
           [] current_state = "Released" -> "Typed"
           [] OTHER -> "Unknown"
    ELSE CASE current_state = "Pressed" -> "KeepPressed"
           [] current_state = "Released" -> "KeepReleased"
           [] OTHER -> "Unknown"

\* A registered closure: ok is whether it returns Ok(()); id names it by the
\* pair it was registered for and its rank among that pair's registrations.
Handler(input, event, n, ok) == [id |-> <<input, event, n>>, ok |-> ok]

\* The clock values update is called with.
UpdateClocks == {0, MaxClock}

\* A handler loop that notes an error and goes on to the remaining handlers.
RECURSIVE run_handlers_to_the_end(_, _, _, _, _)
run_handlers_to_the_end(handlers, t, i, ran, got) ==
    IF i > Len(handlers)
    THEN [ran |-> ran, got |-> got,
          panic |-> \E j \in 1..Len(handlers) : ~handlers[j].ok]
    ELSE run_handlers_to_the_end(handlers, t, i + 1,
                                 Append(ran, handlers[i].id), Append(got, t))

\* for f in handlers { match f(ctx, t) { Err(x) => panic!(x), _ => () } }:
\* the handlers invoked, in order, up to and including the first that fails
\* (ran), and the clock value each of them was handed (got).
RECURSIVE run_handlers(_, _, _, _, _)
run_handlers(handlers, t, i, ran, got) ==
    IF i > Len(handlers)
    THEN [ran |-> ran, got |-> got, panic |-> FALSE]
    ELSE IF handlers[i].ok
         THEN run_handlers(handlers, t, i + 1, Append(ran, handlers[i].id), Append(got, t))
         ELSE [ran |-> Append(ran, handlers[i].id), got |-> Append(got, t), panic |-> TRUE]

\* flush_key_event: classify, then run event_handlers[vkey][event].
flush_key_event(kb, t, vkey, current_state) ==
    LET event == key_event(current_state, kb.key_map[vkey])
        r == run_handlers(kb.event_handlers[vkey][event], t, 1, << >>, << >>)
    IN  [event |-> event, ran |-> r.ran, got |-> r.got, panic |-> r.panic]

\* An update that classifies and dispatches but never stores the polled state.
RECURSIVE keyboard_update_without_store(_, _, _, _, _)
keyboard_update_without_store(kb, pressed, t, i, log) ==
    IF i > Len(kb.listening)
    THEN [kb |-> kb, log |-> log]
    ELSE LET vkey == kb.listening[i]
             current_state == current_key_status(kb.devices, pressed, vkey)
             r == flush_key_event(kb, t, vkey, current_state)
             entry == [key |-> vkey, prev |-> kb.key_map[vkey], cur |-> current_state,
                       event |-> r.event, ran |-> r.ran, got |-> r.got]
         IN  IF r.panic
             THEN [kb |-> [kb EXCEPT !.alive = FALSE], log |-> Append(log, entry)]
             ELSE keyboard_update_without_store(kb, pressed, t, i + 1, Append(log, entry))

\* KeyboardListener::update: for each listening key in order: poll, flush,
\* then store the polled state. A panic ends the loop before the store.
RECURSIVE keyboard_update(_, _, _, _, _)
keyboard_update(kb, pressed, t, i, log) ==
    IF i > Len(kb.listening)
    THEN [kb |-> kb, log |-> log]
    ELSE LET vkey == kb.listening[i]
             current_state == current_key_status(kb.devices, pressed, vkey)
             r == flush_key_event(kb, t, vkey, current_state)
             entry == [key |-> vkey, prev |-> kb.key_map[vkey], cur |-> current_state,
                       event |-> r.event, ran |-> r.ran, got |-> r.got]
         IN  IF r.panic
             THEN [kb |-> [kb EXCEPT !.alive = FALSE], log |-> Append(log, entry)]
             ELSE keyboard_update([kb EXCEPT !.key_map[vkey] = current_state],
                                  pressed, t, i + 1, Append(log, entry))

\* The parts KeyboardListener::new and new_masked share: key_map all Released,
\* one empty handler list per (key, event).
keyboard_with(made_by, devices, listening) ==
    [built |-> TRUE,
     made_by |-> made_by,
     alive |-> TRUE,
     registered |-> 0,
     devices |-> devices,
     listening |-> listening,
     key_map |-> [k \in VirtualKeys |-> "Released"],
     event_handlers |-> [k \in VirtualKeys |-> [e \in KeyboardEvents |-> << >>]]]

\* KeyboardListener::new: listening is from_i32(0), ..., from_i32(24).
keyboard_new(devices) ==
    keyboard_with("new", devices, [i \in 1..(VK_Unknown + 1) |-> from_i32(i - 1)])

\* A masked constructor that tracks every key all the same.
keyboard_new_masked_tracks_all(devices, listening) ==
    keyboard_with("new_masked", devices, [i \in 1..(VK_Unknown + 1) |-> from_i32(i - 1)])

\* KeyboardListener::new_masked: listening is the caller's list.
keyboard_new_masked(devices, listening) == keyboard_with("new_masked", devices, listening)

\* KeyboardListener::register_event_handler: push onto event_handlers[key][event].
keyboard_register_event_handler(kb, key, event, f) ==
    [kb EXCEPT !.event_handlers[key][event] = Append(@, f)]

KbCall(op, arg, pressed, t, log) ==
    [op |-> op, arg |-> arg, pressed |-> pressed, t |-> t, log |-> log,
     pre_key_map |-> keyboard.key_map, pre_handlers |-> keyboard.event_handlers]

\* No listener exists yet.
InitKeyboard ==
    /\ keyboard = [built |-> FALSE, made_by |-> "none", alive |-> FALSE, registered |-> 0,
                   devices |-> << >>,
                   listening |-> << >>,
                   key_map |-> [k \in VirtualKeys |-> "Released"],
                   event_handlers |-> [k \in VirtualKeys |-> [e \in KeyboardEvents |-> << >>]]]
    /\ kb_call = [op |-> "none", arg |-> << >>, pressed |-> {}, t |-> 0, log |-> << >>,
                  pre_key_map |-> [k \in VirtualKeys |-> "Released"],
                  pre_handlers |-> [k \in VirtualKeys |-> [e \in KeyboardEvents |-> << >>]]]
    /\ kb_trace = << >>

KeyboardNew(devices) ==
    /\ ~keyboard.built
    /\ keyboard' = keyboard_new(devices)
    /\ kb_call' = KbCall("new", << >>, {}, 0, << >>)
    /\ UNCHANGED kb_trace
    /\ OnlyKeyboard

KeyboardNewMasked(devices, listening) ==
    /\ ~keyboard.built
    /\ keyboard' = keyboard_new_masked(devices, listening)
    /\ kb_call' = KbCall("new_masked", listening, {}, 0, << >>)
    /\ UNCHANGED kb_trace
    /\ OnlyKeyboard

KeyboardRegister(key, event, ok) ==
    /\ keyboard.alive
    /\ keyboard.registered < MaxHandlers
    /\ keyboard' = [keyboard_register_event_handler(
                         keyboard, key, event,
                         Handler(key, event, Len(keyboard.event_handlers[key][event]) + 1, ok))
                    EXCEPT !.registered = @ + 1]
    /\ kb_call' = KbCall("register_event_handler", <<key, event>>, {}, 0, << >>)
    /\ UNCHANGED kb_trace
    /\ OnlyKeyboard

\* The effect of update on the listener, and the record of the call.
KeyboardUpdateCall(pressed, t) ==
    /\ keyboard.alive
    /\ LET r == keyboard_update(keyboard, pressed, t, 1, << >>)
       IN  /\ keyboard' = r.kb
           /\ kb_call' = KbCall("update", << >>, pressed, t, r.log)

KeyboardUpdate(pressed, t) ==
    /\ KeyboardUpdateCall(pressed, t)
    /\ UNCHANGED kb_trace
    /\ OnlyKeyboard

NextKeyboard ==
    \/ \E devices \in DeviceLists : KeyboardNew(devices)
    \/ \E devices \in DeviceLists,
          listening \in UNION {[1..n -> HostKeys] : n \in 0..MaxListening} :
            KeyboardNewMasked(devices, listening)
    \/ \E key \in HostKeys, event \in KeyboardEvents \ {"Unknown"}, ok \in BOOLEAN :
            KeyboardRegister(key, event, ok)
    \/ \E pressed \in SUBSET HostKeys : KeyboardUpdate(pressed, 0)

(***************************************************************************)
(* MouseListener                                                            *)
(***************************************************************************)

MouseButtons == <<"Left", "Middle", "Right">>

MouseButtonSet == {MouseButtons[i] : i \in 1..Len(MouseButtons)}

MouseButtonEvents == {"Clicked", "Pressed", "Dragged"}

\* The buttons the user touches: the first NumHostButtons of MouseButtons.
NumHostButtons == 2

HostButtons == {MouseButtons[i] : i \in 1..NumHostButtons} \cap MouseButtonSet

\* Where the cursor can be when update polls it.
CursorPoints == {<<0, 0>>, <<5, 5>>, <<9, 9>>}

\* check_button: the host's button state as a MouseButtonStatus.
check_button(pressed, button) ==
    IF button \in pressed THEN "MousePressed" ELSE "MouseReleased"

\* A classification that reports an unchanged button as Dragged in both states.
mouse_event_idle_is_dragged(current_state, stored) ==
    IF current_state # stored
    THEN IF current_state = "MousePressed" THEN Some("Pressed") ELSE Some("Clicked")
    ELSE Some("Dragged")

\* __flush_button_event, the event: none when the button stays released.
mouse_event(current_state, stored) ==
    IF current_state # stored
    THEN IF current_state = "MousePressed" THEN Some("Pressed") ELSE Some("Clicked")
    ELSE IF current_state = "MousePressed" THEN Some("Dragged") ELSE None

\* A flush that records the cursor position when the button goes down.
flush_one_button_event_marks_press(ms, position, t, button, current_state) ==
    LET stored == ms.button_map[button]
        event == mouse_event(current_state, stored)
        went_down == current_state # stored /\ current_state = "MousePressed"
        ms1 == IF went_down THEN [ms EXCEPT !.last_clicked[button] = position] ELSE ms
        r == IF event = None
             THEN [ran |-> << >>, got |-> << >>, panic |-> FALSE]
             ELSE run_handlers(ms.event_handlers[button][event[1]], t, 1, << >>, << >>)
    IN  [ms |-> IF r.panic THEN [ms1 EXCEPT !.alive = FALSE] ELSE ms1,
         entry |-> [button |-> button, prev |-> stored, cur |-> current_state,
                    event |-> event, ran |-> r.ran, got |-> r.got],
         panic |-> r.panic]

\* __flush_button_event: classify; a release records the cursor position in
\* last_clicked; an idle released button returns early; the handlers of
\* event_handlers[button][event] run in order and an Err panics.
flush_one_button_event(ms, position, t, button, current_state) ==
    LET stored == ms.button_map[button]
        event == mouse_event(current_state, stored)
        clicked == current_state # stored /\ current_state = "MouseReleased"
        ms1 == IF clicked THEN [ms EXCEPT !.last_clicked[button] = position] ELSE ms
        r == IF event = None
             THEN [ran |-> << >>, got |-> << >>, panic |-> FALSE]
             ELSE run_handlers(ms.event_handlers[button][event[1]], t, 1, << >>, << >>)
    IN  [ms |-> IF r.panic THEN [ms1 EXCEPT !.alive = FALSE] ELSE ms1,
         entry |-> [button |-> button, prev |-> stored, cur |-> current_state,
                    event |-> event, ran |-> r.ran, got |-> r.got],
         panic |-> r.panic]

\* flush_button_event: Left, then Middle, then Right.
RECURSIVE flush_button_event(_, _, _, _, _, _)
flush_button_event(ms, position, t, states, i, log) ==
    IF i > Len(MouseButtons)
    THEN [ms |-> ms, log |-> log]
    ELSE LET r == flush_one_button_event(ms, position, t, MouseButtons[i],
                                         states[MouseButtons[i]])
         IN  IF r.panic
             THEN [ms |-> r.ms, log |-> Append(log, r.entry)]
             ELSE flush_button_event(r.ms, position, t, states, i + 1, Append(log, r.entry))

\* MouseListener::update: poll the three buttons, flush, then store the three
\* polled states. A panic in a handler leaves button_map as it was.
mouse_update(ms, pressed, position, t) ==
    LET states == [b \in MouseButtonSet |-> check_button(pressed, b)]
        r == flush_button_event(ms, position, t, states, 1, << >>)
    IN  [ms |-> IF r.ms.alive THEN [r.ms EXCEPT !.button_map = states] ELSE r.ms,
         log |-> r.log]

\* MouseListener::new: every button released, last_clicked (0, 0), no handlers.
mouse_new ==
    [alive |-> TRUE,
     registered |-> 0,
     last_clicked |-> [b \in MouseButtonSet |-> <<0, 0>>],
     button_map |-> [b \in MouseButtonSet |-> "MouseReleased"],
     event_handlers |-> [b \in MouseButtonSet |-> [e \in MouseButtonEvents |-> << >>]]]

\* MouseListener::register_event_handler: push onto event_handlers[button][event].
mouse_register_event_handler(ms, button, event, f) ==
    [ms EXCEPT !.event_handlers[button][event] = Append(@, f)]

\* MouseListener::get_last_clicked.
get_last_clicked(ms, button) == ms.last_clicked[button]

MsCall(op, arg, pressed, position, t, log) ==
    [op |-> op, arg |-> arg, pressed |-> pressed, position |-> position, t |-> t,
     log |-> log, pre_button_map |-> mouse.button_map,
     pre_handlers |-> mouse.event_handlers]

InitMouse ==
    /\ mouse = mouse_new
    /\ ms_call = [op |-> "new", arg |-> << >>, pressed |-> {}, position |-> <<0, 0>>,
                  t |-> 0, log |-> << >>, pre_button_map |-> mouse_new.button_map,
                  pre_handlers |-> mouse_new.event_handlers]
    /\ clicked_at = [b \in MouseButtonSet |-> <<0, 0>>]
    /\ ms_trace = << >>

MouseRegister(button, event, ok) ==
    /\ mouse.alive
    /\ mouse.registered < MaxHandlers
    /\ mouse' = [mouse_register_event_handler(
                      mouse, button, event,
                      Handler(button, event, Len(mouse.event_handlers[button][event]) + 1, ok))
                 EXCEPT !.registered = @ + 1]
    /\ ms_call' = MsCall("register_event_handler", <<button, event>>, {}, <<0, 0>>, 0, << >>)
    /\ UNCHANGED <<clicked_at, ms_trace>>
    /\ OnlyMouse

\* The effect of update on the listener, and the record of the call.
MouseUpdateCall(pressed, position, t) ==
    /\ mouse.alive
    /\ LET r == mouse_update(mouse, pressed, position, t)
       IN  /\ mouse' = r.ms
           /\ ms_call' = MsCall("update", << >>, pressed, position, t, r.log)
    /\ clicked_at' = [b \in MouseButtonSet |->
                        IF mouse.button_map[b] = "MousePressed" /\ b \notin pressed
                        THEN position
                        ELSE clicked_at[b]]

MouseUpdate(pressed, position, t) ==
    /\ MouseUpdateCall(pressed, position, t)
    /\ UNCHANGED ms_trace
    /\ OnlyMouse

NextMouse ==
    \/ \E button \in MouseButtonSet, event \in MouseButtonEvents, ok \in BOOLEAN :
            MouseRegister(button, event, ok)
    \/ \E pressed \in SUBSET HostButtons, position \in CursorPoints :
            MouseUpdate(pressed, position, 0)

(***************************************************************************)
(* Both listeners                                                           *)
(***************************************************************************)

\* The two listeners share no state. A program that polls the keyboard
\* listener leaves the mouse listener as constructed, and the other way
\* round; the clock handed to update varies and the cursor rests.
MouseUntouched == ms_call.op = "new"

ListenerKeyboardNew ==
    /\ MouseUntouched
    /\ \/ \E devices \in DeviceLists : KeyboardNew(devices)
       \/ \E devices \in DeviceLists,
             listening \in UNION {[1..n -> HostKeys] : n \in 0..MaxListening} :
               KeyboardNewMasked(devices, listening)

ListenerKeyboardRegister ==
    /\ MouseUntouched
    /\ \E key \in HostKeys, event \in KeyboardEvents \ {"Unknown"}, ok \in BOOLEAN :
            KeyboardRegister(key, event, ok)

ListenerKeyboardUpdate ==
    /\ MouseUntouched
    /\ \E pressed \in SUBSET HostKeys, t \in UpdateClocks : KeyboardUpdate(pressed, t)

ListenerMouseRegister ==
    /\ ~keyboard.built
    /\ \E button \in MouseButtonSet, event \in MouseButtonEvents, ok \in BOOLEAN :
            MouseRegister(button, event, ok)

ListenerMouseUpdate ==
    /\ ~keyboard.built
    /\ \E pressed \in SUBSET HostButtons, t \in UpdateClocks :
            MouseUpdate(pressed, <<5, 5>>, t)

\* The first MaxTrace updates of a listener, each recorded in the trace.
MaxTrace == 3

FreshKeyboardNew ==
    /\ MouseUntouched
    /\ \/ \E devices \in DeviceLists : KeyboardNew(devices)
       \/ \E devices \in DeviceLists,
             listening \in UNION {[1..n -> HostKeys] : n \in 0..MaxListening} :
               KeyboardNewMasked(devices, listening)

FreshKeyboardRegister ==
    /\ MouseUntouched
    /\ \E key \in HostKeys, event \in KeyboardEvents \ {"Unknown"} :
            KeyboardRegister(key, event, TRUE)

FreshKeyboardUpdate ==
    /\ MouseUntouched
    /\ Len(kb_trace) < MaxTrace
    /\ \E pressed \in SUBSET HostKeys :
          /\ KeyboardUpdateCall(pressed, 0)
          /\ kb_trace' = Append(kb_trace, kb_call'.log)
    /\ OnlyKeyboard

FreshMouseRegister ==
    /\ ~keyboard.built
    /\ \E button \in MouseButtonSet, event \in MouseButtonEvents :
            MouseRegister(button, event, TRUE)

FreshMouseUpdate ==
    /\ ~keyboard.built
    /\ Len(ms_trace) < MaxTrace
    /\ \E pressed \in SUBSET HostButtons :
          /\ MouseUpdateCall(pressed, <<5, 5>>, 0)
          /\ ms_trace' = Append(ms_trace, ms_call'.log)
    /\ OnlyMouse

NextFresh ==
    \/ FreshKeyboardNew
    \/ FreshKeyboardRegister
    \/ FreshKeyboardUpdate
    \/ FreshMouseRegister
    \/ FreshMouseUpdate

NextListeners ==
    \/ ListenerKeyboardNew
    \/ ListenerKeyboardRegister
    \/ ListenerKeyboardUpdate
    \/ ListenerMouseRegister
    \/ ListenerMouseUpdate

(***************************************************************************)
(* MouseListener, the older revision (device/mod.rs)                        *)
(***************************************************************************)

\* This revision has no Dragged event and its handlers return an i32 that
\* the listener ignores.
OldMouseButtonEvents == {"Clicked", "Pressed"}

\* check_button(ctx, button): asks the host about MouseButton::Left, whatever
\* button is.
old_check_button(pressed, button) ==
    IF "Left" \in pressed THEN "MousePressed" ELSE "MouseReleased"

\* for f in &self.event_handlers[&button][&event] { f(); }
old_run_handlers(handlers) == [i \in 1..Len(handlers) |-> handlers[i].id]

\* __flush_button_event: only a changed status dispatches; a release
\* records the cursor position in last_clicked.
old_flush_one_button_event(ms, position, button, current_state) ==
    LET stored == ms.button_map[button]
    IN  IF current_state # stored
        THEN LET event == IF current_state = "MousePressed" THEN "Pressed" ELSE "Clicked"
                 ms1 == IF current_state = "MouseReleased"
                        THEN [ms EXCEPT !.last_clicked[button] = position]
                        ELSE ms
             IN  [ms |-> ms1,
                  entry |-> [button |-> button, prev |-> stored, cur |-> current_state,
                             event |-> Some(event),
                             ran |-> old_run_handlers(ms.event_handlers[button][event])]]
        ELSE [ms |-> ms,
              entry |-> [button |-> button, prev |-> stored, cur |-> current_state,
                         event |-> None, ran |-> << >>]]

\* flush_button_event: Left, then Middle, then Right.
RECURSIVE old_flush_button_event(_, _, _, _, _)
old_flush_button_event(ms, position, states, i, log) ==
    IF i > Len(MouseButtons)
    THEN [ms |-> ms, log |-> log]
    ELSE LET r == old_flush_one_button_event(ms, position, MouseButtons[i],
                                             states[MouseButtons[i]])
         IN  old_flush_button_event(r.ms, position, states, i + 1, Append(log, r.entry))

\* MouseListener::update: poll, flush, store the three statuses, Ok(()).
old_mouse_update(ms, pressed, position) ==
    LET states == [b \in MouseButtonSet |-> old_check_button(pressed, b)]
        r == old_flush_button_event(ms, position, states, 1, << >>)
    IN  [ms |-> [r.ms EXCEPT !.button_map = states], log |-> r.log]

\* MouseListener::new.
old_mouse_new ==
    [registered |-> 0,
     last_clicked |-> [b \in MouseButtonSet |-> <<0, 0>>],
     button_map |-> [b \in MouseButtonSet |-> "MouseReleased"],
     event_handlers |-> [b \in MouseButtonSet |-> [e \in OldMouseButtonEvents |-> << >>]]]

\* MouseListener::register_event_handler: push.
old_mouse_register_event_handler(ms, button, event, f) ==
    [ms EXCEPT !.event_handlers[button][event] = Append(@, f)]

OldMsCall(op, pressed, position, log) ==
    [op |-> op, pressed |-> pressed, position |-> position, log |-> log,
     pre_button_map |-> old_mouse.button_map]

InitOldMouse ==
    /\ old_mouse = old_mouse_new
    /\ old_ms_call = [op |-> "new", pressed |-> {}, position |-> <<0, 0>>, log |-> << >>,
                      pre_button_map |-> old_mouse_new.button_map]

OldMouseRegister(button, event) ==
    /\ old_mouse.registered < MaxHandlers
    /\ old_mouse' = [old_mouse_register_event_handler(
                          old_mouse, button, event,
                          [id |-> <<button, event,
                                    Len(old_mouse.event_handlers[button][event]) + 1>>])
                     EXCEPT !.registered = @ + 1]
    /\ old_ms_call' = OldMsCall("register_event_handler", {}, <<0, 0>>, << >>)
    /\ OnlyOldMouse

OldMouseUpdate(pressed, position) ==
    /\ LET r == old_mouse_update(old_mouse, pressed, position)
       IN  /\ old_mouse' = r.ms
           /\ old_ms_call' = OldMsCall("update", pressed, position, r.log)
    /\ OnlyOldMouse

\* A program is built with one of the two revisions of the module.
OldMouseUntouched == old_ms_call.op = "new"

RevisionMouseRegister ==
    /\ OldMouseUntouched
    /\ \E button \in MouseButtonSet, event \in MouseButtonEvents, ok \in BOOLEAN :
            MouseRegister(button, event, ok)

RevisionMouseUpdate ==
    /\ OldMouseUntouched
    /\ \E pressed \in SUBSET HostButtons : MouseUpdate(pressed, <<5, 5>>, 0)

RevisionOldMouseRegister ==
    /\ MouseUntouched
    /\ \E button \in MouseButtonSet, event \in OldMouseButtonEvents :
            OldMouseRegister(button, event)

RevisionOldMouseUpdate ==
    /\ MouseUntouched
    /\ \E pressed \in SUBSET HostButtons, position \in CursorPoints :
            OldMouseUpdate(pressed, position)

NextMouseRevisions ==
    \/ RevisionMouseRegister
    \/ RevisionMouseUpdate
    \/ RevisionOldMouseRegister
    \/ RevisionOldMouseUpdate

(***************************************************************************)
(* Drawables: DrawableComponent::draw, hide, appear and is_visible          *)
(***************************************************************************)

\* The most fragments, menu items or overlay lines a drawable holds.
MaxFragments == 2

\* The implementors of DrawableComponent that are not wrappers.
DrawableLeaves ==
    {"UniTexture", "MovableUniTexture", "MovableText", "VerticalText", "TileBatch",
     "DrawableShape", "FramedTextBalloon", "ShadowShape", "SubScreen",
     "VerticalMenu", "DebugScreen"}

\* The implementors of TextureObject that MovableWrap<T> can box.
TextureObjects ==
    {"UniTexture", "MovableUniTexture", "MovableText", "VerticalText", "SubScreen"}

\* The implementors of MovableObject + TextureObject that are not wrappers.
MovableTextureObjects == {"MovableUniTexture", "MovableText"}

\* The drawables that hold a list of parts drawn one by one.
SizedDrawables == {"VerticalText", "VerticalMenu", "DebugScreen"}

\* A drawable is named by its kinds from the outermost wrapper to the leaf.
DrawableKinds ==
    {<<k>> : k \in DrawableLeaves}
        \cup {<<"MovableWrap", k>> : k \in TextureObjects}
        \cup {<<"EffectableWrap", k>> : k \in MovableTextureObjects}
        \cup {<<"EffectableWrap", "MovableWrap", k>> : k \in TextureObjects}

\* The canvas of the SubScreen a VerticalMenu or a DebugScreen owns.
DrawCanvas == 1

\* The host calls of setup_new_drawing_target.
setup_new_drawing_target_calls == <<"set_canvas", "clear", "set_screen_coordinates">>

\* The host calls of pop_screen: setup_poped_drawing_target when a screen
\* was popped, make_none_draw_target otherwise.
pop_screen_calls(stack) == <<"set_canvas", "set_screen_coordinates">>

DrawResult(calls, ret, st) ==
    [calls |-> calls, ret |-> ret, target |-> st.target, stack |-> st.stack,
     canvas |-> st.canvas]

\* ggraphics::draw: one host draw call, which the host may fail.
ggraphics_draw(host_ok, st) ==
    DrawResult(<<"draw">>, IF host_ok THEN "Ok" ELSE "Err", st)

\* n draws in a row, each followed by `?`: the first failure returns.
draw_each(n, host_ok, st) ==
    IF host_ok
    THEN DrawResult([i \in 1..n |-> "draw"], "Ok", st)
    ELSE IF n = 0 THEN DrawResult(<< >>, "Ok", st)
         ELSE DrawResult(<<"draw">>, "Err", st)

\* UniTexture, MovableUniTexture, MovableText: the host's result when
\* visible, Ok(()) otherwise.
texture_draw(obj, host_ok, st) ==
    IF obj.visible THEN ggraphics_draw(host_ok, st) ELSE DrawResult(<< >>, "Ok", st)

\* VerticalText: one host draw per fragment when visible (src.h = 1, so the
\* height budget covers every fragment).
vertical_text_draw(obj, host_ok, st) ==
    IF obj.visible THEN draw_each(obj.size, host_ok, st) ELSE DrawResult(<< >>, "Ok", st)

\* TileBatch: the host's result is unwrapped.
tile_batch_draw(obj, host_ok, st) ==
    IF obj.visible
    THEN DrawResult(<<"draw">>, IF host_ok THEN "Ok" ELSE "panic", st)
    ELSE DrawResult(<< >>, "Ok", st)

\* DrawableShape and ShadowShape: if visible { draw(..)? } Ok(()).
shape_draw(obj, host_ok, st) ==
    IF obj.visible THEN ggraphics_draw(host_ok, st) ELSE DrawResult(<< >>, "Ok", st)

\* FramedTextBalloon: outer then inner, two DrawableShapes that stay visible.
framed_text_balloon_draw(obj, host_ok, st) ==
    IF obj.visible THEN draw_each(2, host_ok, st) ELSE DrawResult(<< >>, "Ok", st)

\* SubScreen: draws its canvas, whatever drwob_essential.visible says.
sub_screen_draw(obj, host_ok, st) == ggraphics_draw(host_ok, st)

\* stack_screen(canvas); draw the parts; pop_screen; canvas.draw: the body
\* VerticalMenu::draw and DebugScreen::draw share. A failing part returns
\* before pop_screen.
draw_into_canvas(obj, host_ok, st) ==
    LET pushed == stack_screen(st.target, st.stack, DrawCanvas)
        parts == draw_each(obj.size, host_ok, pushed)
        popped == pop_screen(pushed.target, pushed.stack)
        last == sub_screen_draw(obj, host_ok, popped)
    IN  IF parts.ret # "Ok"
        THEN DrawResult(setup_new_drawing_target_calls \o parts.calls, "Err", pushed)
        ELSE DrawResult(setup_new_drawing_target_calls \o parts.calls
                            \o pop_screen_calls(pushed.stack) \o last.calls,
                        last.ret, popped)

\* VerticalMenu: everything under if self.is_visible().
vertical_menu_draw(obj, host_ok, st) ==
    IF obj.visible THEN draw_into_canvas(obj, host_ok, st) ELSE DrawResult(<< >>, "Ok", st)

\* DebugScreen: the same body with no visibility test.
debug_screen_draw(obj, host_ok, st) == draw_into_canvas(obj, host_ok, st)

\* draw of the leaf of kind k.
leaf_draw(k, obj, host_ok, st) ==
    CASE k \in {"UniTexture", "MovableUniTexture", "MovableText"} -> texture_draw(obj, host_ok, st)
      [] k = "VerticalText" -> vertical_text_draw(obj, host_ok, st)
      [] k = "TileBatch" -> tile_batch_draw(obj, host_ok, st)
      [] k \in {"DrawableShape", "ShadowShape"} -> shape_draw(obj, host_ok, st)
      [] k = "FramedTextBalloon" -> framed_text_balloon_draw(obj, host_ok, st)
      [] k = "SubScreen" -> sub_screen_draw(obj, host_ok, st)
      [] k = "VerticalMenu" -> vertical_menu_draw(obj, host_ok, st)
      [] k = "DebugScreen" -> debug_screen_draw(obj, host_ok, st)

\* MovableWrap::draw and EffectableWrap::draw hand the call to the object
\* they wrap, so a drawable draws as its leaf does.
drawable_draw(obj, host_ok, st) == leaf_draw(Last(obj.kinds), obj, host_ok, st)

\* hide and appear reach the one visible flag: the leaf's own, or the flag
\* of the canvas a VerticalMenu or a DebugScreen owns.
\* A hide that flips the flag instead of clearing it.
drawable_hide_toggles(obj) == [obj EXCEPT !.visible = ~@]

drawable_hide(obj) == [obj EXCEPT !.visible = FALSE]

drawable_appear(obj) == [obj EXCEPT !.visible = TRUE]

is_visible(obj) == obj.visible

\* The depths and the positions (one coordinate) the caller uses.
DrawDepths == {0, 5}

DrawPositions == {0, 3}

\* set_drawing_depth and set_position store their argument (the wrappers
\* hand both to the object they wrap).
set_drawing_depth(obj, depth) == [obj EXCEPT !.depth = depth]

set_position(obj, pos) == [obj EXCEPT !.pos = pos]

\* Every constructor starts with DrawableObjectEssential::new(true, depth);
\* the caller's depth and position are 0 here.
drawable_new(kinds, size) ==
    [kinds |-> kinds, visible |-> TRUE, size |-> size, depth |-> 0, pos |-> 0]

\* last_toggle is the latest of the hide and appear calls made on the object.
DrawCall(op, host_ok, r) ==
    [op |-> op, was_visible |-> is_visible(drawable), host_ok |-> host_ok,
     calls |-> r.calls, ret |-> r.ret,
     pre_depth |-> drawable.depth, pre_pos |-> drawable.pos,
     last_toggle |-> IF op \in {"hide", "appear"} THEN op
                     ELSE IF op = "new" THEN "none"
                     ELSE draw_call.last_toggle]

NoDraw == [calls |-> << >>, ret |-> "Ok"]

InitDraw ==
    /\ drawable = drawable_new(<<"UniTexture">>, 0)
    /\ draw_call = [op |-> "new", was_visible |-> TRUE, host_ok |-> TRUE,
                    calls |-> << >>, ret |-> "Ok", pre_depth |-> 0, pre_pos |-> 0,
                    last_toggle |-> "none"]

DrawableNew(kinds, size) ==
    /\ drawable' = drawable_new(kinds, size)
    /\ draw_call' = DrawCall("new", TRUE, NoDraw)
    /\ OnlyDraw

DrawableHide ==
    /\ drawable' = drawable_hide(drawable)
    /\ draw_call' = DrawCall("hide", TRUE, NoDraw)
    /\ OnlyDraw

DrawableAppear ==
    /\ drawable' = drawable_appear(drawable)
    /\ draw_call' = DrawCall("appear", TRUE, NoDraw)
    /\ OnlyDraw

DrawableSetDepth(depth) ==
    /\ drawable' = set_drawing_depth(drawable, depth)
    /\ draw_call' = DrawCall("set_drawing_depth", TRUE, NoDraw)
    /\ OnlyDraw

\* set_position exists on the implementors of DrawableObject.
DrawableSetPosition(pos) ==
    /\ Last(drawable.kinds) \in TextureObjects \cup {"TileBatch"}
    /\ drawable' = set_position(drawable, pos)
    /\ draw_call' = DrawCall("set_position", TRUE, NoDraw)
    /\ OnlyDraw

\* draw: the host calls it issues and its result; a VerticalMenu or a
\* DebugScreen goes through stack_screen and pop_screen on the way.
DrawableDraw(host_ok) ==
    /\ Len(screen_stack) < MaxStack
    /\ LET r == drawable_draw(drawable, host_ok,
                              [target |-> target_screen, stack |-> screen_stack,
                               canvas |-> canvas])
       IN  /\ target_screen' = r.target
           /\ screen_stack' = r.stack
           /\ canvas' = r.canvas
           /\ draw_call' = DrawCall("draw", host_ok, r)
    /\ UNCHANGED <<drawable, balanced, screen_call>>
    /\ UNCHANGED <<effect_vars, move_vars, keyboard_vars, mouse_vars, old_mouse_vars,
                   debug_vars, tile_vars,
          depth_vars, offset_vars, event_vars>>

NextDraw ==
    \/ \E kinds \in DrawableKinds :
        \E size \in (IF Last(kinds) \in SizedDrawables THEN 0..MaxFragments ELSE {0}) :
            DrawableNew(kinds, size)
    \/ DrawableHide
    \/ DrawableAppear
    \/ \E depth \in DrawDepths : DrawableSetDepth(depth)
    \/ \E pos \in DrawPositions : DrawableSetPosition(pos)
    \/ \E host_ok \in BOOLEAN : DrawableDraw(host_ok)

(***************************************************************************)
(* DebugScreen: the debug overlay's lines (debug.rs)                        *)
(***************************************************************************)

\* The largest text limit the caller sets.
MaxLimit == 3

\* The number of lines the caller pushes.
MaxLines == 5

\* DebugScreen::new: no lines; text_limit is computed from the rectangle
\* and the font ((rect.w / font_info.scale.y) as usize), here the result.
debug_screen_new(limit) == [text_limit |-> limit, text |-> << >>]

\* set_text_limit: stores the limit, the lines stay as they are.
set_text_limit(ds, limit) == [ds EXCEPT !.text_limit = limit]

\* push_text: drop the front line if there are MORE lines than the limit,
\* move every line up by one line height, append the new line at the bottom.
\* y counts line heights above the bottom line.
push_text(ds, line) ==
    LET kept == IF Len(ds.text) > ds.text_limit THEN Tail(ds.text) ELSE ds.text
        moved == [i \in 1..Len(kept) |-> [kept[i] EXCEPT !.y = @ + 1]]
    IN  [ds EXCEPT !.text = Append(moved, [line |-> line, y |-> 0])]

DebugCall(op, pushed, steady) == [op |-> op, pushed |-> pushed, steady |-> steady]

\* DEBUG_SCREEN starts as None.
InitDebug ==
    /\ debug_screen = None
    /\ debug_call = DebugCall("none", << >>, TRUE)

\* debug_screen_init: replaces the overlay with a new one.
DebugScreenInit(limit) ==
    /\ debug_screen' = Some(debug_screen_new(limit))
    /\ debug_call' = DebugCall("init", << >>, TRUE)
    /\ OnlyDebug

\* debug_screen_set_limit: nothing happens without an overlay. The limit is
\* steady while it has not been changed after a push.
DebugScreenSetLimit(limit) ==
    /\ debug_screen' = IF debug_screen = None THEN None
                       ELSE Some(set_text_limit(debug_screen[1], limit))
    /\ debug_call' = DebugCall("set_limit", debug_call.pushed,
                               debug_call.steady /\ debug_call.pushed = << >>)
    /\ OnlyDebug

\* debug_screen_push_text: nothing happens without an overlay. The caller's
\* lines are numbered in push order.
DebugScreenPushText ==
    /\ Len(debug_call.pushed) < MaxLines
    /\ LET line == Len(debug_call.pushed) + 1
       IN  IF debug_screen = None
           THEN /\ debug_screen' = None
                /\ debug_call' = DebugCall("push_text", debug_call.pushed, debug_call.steady)
           ELSE /\ debug_screen' = Some(push_text(debug_screen[1], line))
                /\ debug_call' = DebugCall("push_text", Append(debug_call.pushed, line),
                                           debug_call.steady)
    /\ OnlyDebug

NextDebug ==
    \/ \E limit \in 0..MaxLimit : DebugScreenInit(limit)
    \/ \E limit \in 0..MaxLimit : DebugScreenSetLimit(limit)
    \/ DebugScreenPushText

(***************************************************************************)
(* TileBatch: the source rectangle of a tile (tile_batch.rs)                *)
(***************************************************************************)

\* The most sprites queued between two clear_batch calls.
MaxSprites == 2

\* A u32 is a pair <<hi, lo>> of 16-bit halves: hi * 65536 + lo.
Half == 65536

U32Of(hi, lo) == <<hi, lo>>

\* The 32-bit product of two 16-bit halves, as <<hi, lo>>.
Mul16(x, y) ==
    LET a == x * (y \div 256)
        b == x * (y % 256)
    IN  <<(a + (b \div 256)) \div 256, ((a % 256) * 256 + b) % Half>>

\* A product that saturates at u32::MAX instead of wrapping.
u32_mul_saturating(a, b) ==
    LET ll == Mul16(a[2], b[2])
        hl == Mul16(a[1], b[2])
        lh == Mul16(a[2], b[1])
        mid == ll[1] + hl[2] + lh[2]
        overflow == \/ (a[1] # 0 /\ b[1] # 0)
                    \/ hl[1] # 0
                    \/ lh[1] # 0
                    \/ mid >= Half
    IN  [value |-> IF overflow THEN <<Half - 1, Half - 1>> ELSE <<mid % Half, ll[2]>>,
         overflow |-> overflow]

\* a * b on u32: the low 32 bits of the product, and whether the product
\* needs more than 32 bits.
u32_mul(a, b) ==
    LET ll == Mul16(a[2], b[2])
        hl == Mul16(a[1], b[2])
        lh == Mul16(a[2], b[1])
        mid == ll[1] + hl[2] + lh[2]
    IN  [value |-> <<mid % Half, ll[2]>>,
         overflow |-> \/ (a[1] # 0 /\ b[1] # 0)
                      \/ hl[1] # 0
                      \/ lh[1] # 0
                      \/ mid >= Half]

\* The `*` of the build: with overflow checks an overflowing product
\* panics (None), without them it wraps.
checked_mul(a, b, overflow_checks) ==
    LET p == u32_mul(a, b)
    IN  IF p.overflow /\ overflow_checks THEN None ELSE Some(p.value)

\* The distance between neighbouring f32 values at a u32 with high half hi:
\* 1 below 2^24, then doubling with every further bit.
f32_ulp(hi) ==
    IF hi < 256 THEN 1
    ELSE CHOOSE u \in {2, 4, 8, 16, 32, 64, 128, 256} : 128 * u <= hi /\ hi < 256 * u

\* `as f32` on a u32: the nearest f32, ties to the even mantissa. The
\* result is a whole number of at most 2^32, kept as <<hi, lo>> (2^32 is
\* <<65536, 0>>).
u32_as_f32(a) ==
    LET ulp == f32_ulp(a[1])
        r == a[2] % ulp
        down == a[2] - r
        up == \/ 2 * r > ulp
              \/ (2 * r = ulp /\ (down \div ulp) % 2 = 1)
        lo == IF up THEN down + ulp ELSE down
    IN  IF ulp = 1 THEN a
        ELSE IF lo = Half THEN <<a[1] + 1, 0>> ELSE <<a[1], lo>>

\* f32 / f32: the quotient is named by its two operands (the f32 nearest to
\* num / den).
f32_div(num, den) == [num |-> num, den |-> den]

\* The images loaded (width, height: u16) and the tile sizes and tile
\* positions the caller passes (Vector2u).
ImageSizes == {<<64, 64>>, <<48, 64>>}

TileSizes == {<<U32Of(0, 16), U32Of(0, 16)>>, <<U32Of(0, 1), U32Of(0, 32)>>}

TilePositions ==
    {<<U32Of(0, 0), U32Of(0, 0)>>,
     <<U32Of(0, 2), U32Of(0, 1)>>,
     <<U32Of(0, 1), U32Of(0, 3)>>,
     <<U32Of(256, 1), U32Of(0, 2)>>,
     <<U32Of(4096, 1), U32Of(0, 1)>>,
     <<U32Of(0, 2), U32Of(2048, 5)>>,
     <<U32Of(65535, 65535), U32Of(65535, 65535)>>}

\* TileBatch::new: the tile's extent as a fraction of the image.
tile_batch_new(image, tile_size) ==
    [alive |-> TRUE,
     image_size |-> <<U32Of(0, image[1]), U32Of(0, image[2])>>,
     tile_size |-> tile_size,
     tile_size_ratio_float |->
        <<f32_div(u32_as_f32(tile_size[1]), U32Of(0, image[1])),
          f32_div(u32_as_f32(tile_size[2]), U32Of(0, image[2]))>>,
     sprite_batch |-> << >>]

\* add_batch_ratio_float: queue a sprite with the given origin and the
\* tile's extent.
add_batch_ratio_float(tb, ratio_pos) ==
    [tb EXCEPT !.sprite_batch =
        Append(@, [x |-> ratio_pos[1], y |-> ratio_pos[2],
                   w |-> tb.tile_size_ratio_float[1],
                   h |-> tb.tile_size_ratio_float[2]])]

\* add_batch_tile_position: tile_pos * tile_size in u32, converted to f32
\* and divided by the image size converted to f32.
add_batch_tile_position(tb, tile_pos, overflow_checks) ==
    LET px == checked_mul(tile_pos[1], tb.tile_size[1], overflow_checks)
        py == checked_mul(tile_pos[2], tb.tile_size[2], overflow_checks)
    IN  IF px = None \/ py = None
        THEN [tb EXCEPT !.alive = FALSE]
        ELSE add_batch_ratio_float(tb,
                <<f32_div(u32_as_f32(px[1]), u32_as_f32(tb.image_size[1])),
                  f32_div(u32_as_f32(py[1]), u32_as_f32(tb.image_size[2]))>>)

clear_batch(tb) == [tb EXCEPT !.sprite_batch = << >>]

TileCall(op, tile_pos, overflow_checks) ==
    [op |-> op, tile_pos |-> tile_pos, overflow_checks |-> overflow_checks,
     pre_batch |-> tile_batch.sprite_batch]

InitTile ==
    /\ tile_batch = tile_batch_new(<<64, 64>>, <<U32Of(0, 16), U32Of(0, 16)>>)
    /\ tile_call = [op |-> "new", tile_pos |-> <<U32Of(0, 0), U32Of(0, 0)>>,
                    overflow_checks |-> FALSE, pre_batch |-> << >>]

TileBatchNew(image, tile_size) ==
    /\ tile_batch' = tile_batch_new(image, tile_size)
    /\ tile_call' = TileCall("new", <<U32Of(0, 0), U32Of(0, 0)>>, FALSE)
    /\ OnlyTile

\* overflow_checks is the build's setting (on in a debug build, off in a
\* release build).
TileBatchAddTilePosition(tile_pos, overflow_checks) ==
    /\ tile_batch.alive
    /\ Len(tile_batch.sprite_batch) < MaxSprites
    /\ tile_batch' = add_batch_tile_position(tile_batch, tile_pos, overflow_checks)
    /\ tile_call' = TileCall("add_batch_tile_position", tile_pos, overflow_checks)
    /\ OnlyTile

TileBatchClear ==
    /\ tile_batch.alive
    /\ tile_batch' = clear_batch(tile_batch)
    /\ tile_call' = TileCall("clear_batch", <<U32Of(0, 0), U32Of(0, 0)>>, FALSE)
    /\ OnlyTile

NextTile ==
    \/ \E image \in ImageSizes : \E tile_size \in TileSizes : TileBatchNew(image, tile_size)
    \/ \E tile_pos \in TilePositions : \E overflow_checks \in BOOLEAN :
            TileBatchAddTilePosition(tile_pos, overflow_checks)
    \/ TileBatchClear

(***************************************************************************)
(* Depth ordering: the comparators over get_drawing_depth (i8)              *)
(***************************************************************************)

\* The most drawables the caller keeps in the list it sorts.
MaxObjects == 3

\* The drawing depths (i8) the caller gives its drawables.
Depths == {-128, -1, 0, 1, 127}

\* A comparator that orders by the sign of the wrapping i8 difference bd - ad.
sort_with_depth_by_difference(ad, bd) ==
    LET d == ((bd - ad + 128) % 256) - 128
    IN  IF d < 0 THEN "Less" ELSE IF d > 0 THEN "Greater" ELSE "Equal"

\* drawable_object_sort_with_depth on the two depths read from a and b.
drawable_object_sort_with_depth(ad, bd) ==
    IF ad > bd THEN "Less" ELSE IF ad < bd THEN "Greater" ELSE "Equal"

\* boxed_drawable_object_sort_with_depth: the copy for Box<T>.
boxed_drawable_object_sort_with_depth(ad, bd) ==
    IF ad > bd THEN "Less" ELSE IF ad < bd THEN "Greater" ELSE "Equal"

\* boxed_movable_object_sort_with_depth: the copy for Box<T: MovableObject>.
boxed_movable_object_sort_with_depth(ad, bd) ==
    IF ad > bd THEN "Less" ELSE IF ad < bd THEN "Greater" ELSE "Equal"

Comparators == {"drawable", "boxed_drawable", "boxed_movable"}

sort_with_depth(copy, ad, bd) ==
    CASE copy = "drawable" -> drawable_object_sort_with_depth(ad, bd)
      [] copy = "boxed_drawable" -> boxed_drawable_object_sort_with_depth(ad, bd)
      [] copy = "boxed_movable" -> boxed_movable_object_sort_with_depth(ad, bd)

\* The caller's list.sort_by(comparator): a stable sort, here by insertion:
\* each element goes before the first one the comparator puts it Less than.
RECURSIVE sort_by(_, _)
sort_by(copy, list) ==
    IF list = << >> THEN << >>
    ELSE LET sorted == sort_by(copy, Front(list))
             x == Last(list)
             before == {i \in 1..Len(sorted) :
                            sort_with_depth(copy, x.depth, sorted[i].depth) = "Less"}
             at == IF before = {} THEN Len(sorted) + 1
                   ELSE CHOOSE i \in before : \A j \in before : i <= j
         IN  SubSeq(sorted, 1, at - 1) \o <<x>> \o SubSeq(sorted, at, Len(sorted))

DepthCall(op, copy, a, b, ret) ==
    [op |-> op, copy |-> copy, a |-> a, b |-> b, ret |-> ret, pre |-> depth_list]

InitDepth ==
    /\ depth_list = << >>
    /\ depth_call = [op |-> "none", copy |-> "drawable", a |-> 0, b |-> 0,
                     ret |-> << >>, pre |-> << >>]

\* The caller adds a drawable with the given depth to its list (drawables
\* are numbered as they are added).
DepthPush(d) ==
    /\ Len(depth_list) < MaxObjects
    /\ depth_list' = Append(depth_list, [id |-> Len(depth_list) + 1, depth |-> d])
    /\ depth_call' = DepthCall("push", "drawable", d, d, << >>)
    /\ OnlyDepth

\* The caller empties its list.
DepthClear ==
    /\ depth_list' = << >>
    /\ depth_call' = DepthCall("clear", "drawable", 0, 0, << >>)
    /\ OnlyDepth

\* The three comparators called on the same two depths.
DepthCompare(a, b) ==
    /\ depth_call' = DepthCall("compare", "drawable", a, b,
                                <<drawable_object_sort_with_depth(a, b),
                                  boxed_drawable_object_sort_with_depth(a, b),
                                  boxed_movable_object_sort_with_depth(a, b)>>)
    /\ UNCHANGED depth_list
    /\ OnlyDepth

\* The caller sorts its list with one of the comparators.
DepthSort(copy) ==
    /\ depth_list' = sort_by(copy, depth_list)
    /\ depth_call' = DepthCall("sort", copy, 0, 0, << >>)
    /\ OnlyDepth

NextDepth ==
    \/ \E d \in Depths : DepthPush(d)
    \/ DepthClear
    \/ \E a \in Depths : \E b \in Depths : DepthCompare(a, b)
    \/ \E copy \in Comparators : DepthSort(copy)

(***************************************************************************)
(* Coordinate-offset screen stacking (graphics/draw.rs)                     *)
(***************************************************************************)

\* The deepest nesting of stack_screen calls the caller makes.
MaxOffsetDepth == 2

\* The screens the caller passes: a position and a size.
DrawStackScreen(position, size) == [position |-> position, size |-> size]

StackScreens ==
    {DrawStackScreen(p, s) : p \in {<<0, 0>>, <<1, 2>>}, s \in {<<0, 0>>, <<4, 3>>}}

\* StackScreen::end_point: position + size.
end_point(screen) ==
    <<screen.position[1] + screen.size[1], screen.position[2] + screen.size[2]>>

\* draw::reset_stacking_screen: the given screen becomes the target.
draw_reset_stacking_screen(screen) == screen

\* A pop that takes one entry off the stack and makes it the target.
draw_pop_screen_one_entry(stack, target) ==
    IF stack # << >>
    THEN [stack |-> Front(stack), target |-> Last(stack), ret |-> Some(Last(stack))]
    ELSE [stack |-> stack, target |-> target, ret |-> None]

\* draw::stack_screen: push a copy of the target; add the new screen's
\* position to the target's; shrink the target's size by the difference of
\* two end points, both read from the target before the move; push the new
\* screen.
draw_stack_screen(stack, target, new_screen) ==
    LET current_end_point == end_point(target)
        new_end_point == end_point(target)
        moved == <<target.position[1] + new_screen.position[1],
                   target.position[2] + new_screen.position[2]>>
        size_x == IF current_end_point[1] >= new_end_point[1]
                  THEN target.size[1] - (current_end_point[1] - new_end_point[1])
                  ELSE target.size[1]
        size_y == IF current_end_point[2] >= new_end_point[2]
                  THEN target.size[2] - (current_end_point[2] - new_end_point[2])
                  ELSE target.size[2]
    IN  [stack |-> Append(Append(stack, target), new_screen),
         target |-> DrawStackScreen(moved, <<size_x, size_y>>)]

\* draw::pop_screen: pop two entries; when both were there, the second
\* becomes the target and the first is returned; otherwise none is returned.
draw_pop_screen(stack, target) ==
    LET last_arg_screen == IF stack # << >> THEN Some(Last(stack)) ELSE None
        stack1 == IF stack # << >> THEN Front(stack) ELSE stack
        last_cur_screen == IF stack1 # << >> THEN Some(Last(stack1)) ELSE None
        stack2 == IF stack1 # << >> THEN Front(stack1) ELSE stack1
    IN  IF last_cur_screen # None /\ last_arg_screen # None
        THEN [stack |-> stack2, target |-> last_cur_screen[1], ret |-> last_arg_screen]
        ELSE [stack |-> stack2, target |-> target, ret |-> None]

OffsetCall(op, ret) ==
    [op |-> op, ret |-> ret, pre_target |-> draw_target_screen,
     pre_saved |-> offset_saved]

\* SCREEN_STACK is empty and TARGET_SCREEN is the zero screen.
InitOffset ==
    /\ draw_screen_stack = << >>
    /\ draw_target_screen = DrawStackScreen(<<0, 0>>, <<0, 0>>)
    /\ offset_saved = << >>
    /\ offset_call = [op |-> "none", ret |-> None,
                      pre_target |-> DrawStackScreen(<<0, 0>>, <<0, 0>>),
                      pre_saved |-> << >>]

OffsetReset(screen) ==
    /\ draw_target_screen' = draw_reset_stacking_screen(screen)
    /\ offset_call' = OffsetCall("reset_stacking_screen", None)
    /\ UNCHANGED <<draw_screen_stack, offset_saved>>
    /\ OnlyOffset

OffsetStackScreen(new_screen) ==
    /\ Len(offset_saved) < MaxOffsetDepth
    /\ LET r == draw_stack_screen(draw_screen_stack, draw_target_screen, new_screen)
       IN  /\ draw_screen_stack' = r.stack
           /\ draw_target_screen' = r.target
    /\ offset_saved' = Append(offset_saved,
                              [target |-> draw_target_screen, arg |-> new_screen])
    /\ offset_call' = OffsetCall("stack_screen", None)
    /\ OnlyOffset

OffsetPopScreen ==
    /\ LET r == draw_pop_screen(draw_screen_stack, draw_target_screen)
       IN  /\ draw_screen_stack' = r.stack
           /\ draw_target_screen' = r.target
           /\ offset_call' = OffsetCall("pop_screen", r.ret)
    /\ offset_saved' = IF offset_saved # << >> THEN Front(offset_saved) ELSE << >>
    /\ OnlyOffset

NextOffset ==
    \/ \E screen \in StackScreens : OffsetReset(screen)
    \/ \E new_screen \in StackScreens : OffsetStackScreen(new_screen)
    \/ OffsetPopScreen

(***************************************************************************)
(* ScheduledEvent (core.rs, and the older revision core/mod.rs)             *)
(***************************************************************************)

\* The most calls of the event's function the record keeps.
MaxCalls == 3

\* core.rs keeps a Box<dyn Fn(Args) -> ()>, core/mod.rs a
\* fn(Args) -> Result<(), &'static str>.
EventRevisions == {"boxed", "result"}

\* The functions the caller schedules, named by what they return.
EventFuncs == {"returns_ok", "returns_err"}

\* The absolute clock values (u64) the caller schedules for.
EventTimes == {0, 10}

\* The arguments the caller passes to call_event.
EventArgs == {10, 11}

\* What the scheduled function returns: () in core.rs, its Result in core/mod.rs.
func_result(revision, func, args) ==
    IF revision = "boxed" THEN "unit"
    ELSE IF func = "returns_ok" THEN "Ok" ELSE "Err"

\* ScheduledEvent::new: run_time is call_abs, func is func.
scheduled_event_new(revision, func, call_abs) ==
    [revision |-> revision, run_time |-> call_abs, func |-> func]

\* A call_event that runs the function twice.
call_event_twice(event, args) ==
    [invoked |-> <<[func |-> event.func, args |-> args],
                   [func |-> event.func, args |-> args]>>,
     ret |-> func_result(event.revision, event.func, args)]

\* ScheduledEvent::call_event: (self.func)(args); its value is the call's value.
call_event(event, args) ==
    [invoked |-> <<[func |-> event.func, args |-> args]>>,
     ret |-> func_result(event.revision, event.func, args)]

\* ScheduledEvent::get_scheduled: self.run_time.
get_scheduled(event) == event.run_time

EventCallRecord(op, args, ret) ==
    [op |-> op, args |-> args, ret |-> ret, pre_invoked |-> event_invoked]

\* No event exists yet.
InitEvent ==
    /\ sched_event = None
    /\ event_made = [revision |-> "boxed", func |-> "returns_ok", call_abs |-> 0]
    /\ event_invoked = << >>
    /\ event_call = [op |-> "none", args |-> 0, ret |-> "unit", pre_invoked |-> << >>]

EventNew(revision, func, call_abs) ==
    /\ sched_event = None
    /\ sched_event' = Some(scheduled_event_new(revision, func, call_abs))
    /\ event_made' = [revision |-> revision, func |-> func, call_abs |-> call_abs]
    /\ event_call' = EventCallRecord("new", 0, "unit")
    /\ UNCHANGED event_invoked
    /\ OnlyEvent

EventCallEvent(args) ==
    /\ sched_event # None
    /\ Len(event_invoked) < MaxCalls
    /\ LET r == call_event(sched_event[1], args)
       IN  /\ event_invoked' = event_invoked \o r.invoked
           /\ event_call' = EventCallRecord("call_event", args, r.ret)
    /\ UNCHANGED <<sched_event, event_made>>
    /\ OnlyEvent

EventGetScheduled ==
    /\ sched_event # None
    /\ event_call' = EventCallRecord("get_scheduled", 0, get_scheduled(sched_event[1]))
    /\ UNCHANGED <<sched_event, event_made, event_invoked>>
    /\ OnlyEvent

NextEvent ==
    \/ \E revision \in EventRevisions, func \in EventFuncs, call_abs \in EventTimes :
            EventNew(revision, func, call_abs)
    \/ \E args \in EventArgs : EventCallEvent(args)
    \/ EventGetScheduled

(***************************************************************************)
(* Specifications                                                           *)
(***************************************************************************)

\* Every specification starts from the freshly constructed program.
Init ==
    /\ InitScreen
    /\ InitEffect
    /\ InitMove
    /\ InitKeyboard
    /\ InitMouse
    /\ InitOldMouse
    /\ InitDraw
    /\ InitDebug
    /\ InitTile
    /\ InitDepth
    /\ InitOffset
    /\ InitEvent

SpecScreen == Init /\ [][NextScreen]_vars

SpecEffect == Init /\ [][NextEffect]_vars

SpecMove == Init /\ [][NextMove]_vars

SpecKeyboard == Init /\ [][NextKeyboard]_vars

SpecMouse == Init /\ [][NextMouse]_vars

SpecListeners == Init /\ [][NextListeners]_vars

SpecFresh == Init /\ [][NextFresh]_vars

SpecMouseRevisions == Init /\ [][NextMouseRevisions]_vars

SpecDraw == Init /\ [][NextDraw]_vars

SpecDebug == Init /\ [][NextDebug]_vars

SpecTile == Init /\ [][NextTile]_vars

SpecDepth == Init /\ [][NextDepth]_vars

SpecOffset == Init /\ [][NextOffset]_vars

SpecEvent == Init /\ [][NextEvent]_vars

(***************************************************************************)
(* Claims                                                                   *)
(***************************************************************************)

\* C1: for every balanced sequence of stack_screen/pop_screen calls, from any
\* reachable state of the slot and the stack (reset_stacking_screen included),
\* the current target after the sequence is the target before it: the pop that
\* closes a stack_screen leaves the slot as that stack_screen found it.
C1_BalancedRestoresTarget ==
    (screen_call.op = "pop_screen" /\ screen_call.restore # None)
        => target_screen = screen_call.restore[1]

\* C2 as claimed: pop_screen returns the target it popped from the stack (the
\* one it re-activates), and none exactly when the stack was empty.
C2_PopReturnsPopped ==
    screen_call.op = "pop_screen" => screen_call.ret = screen_call.popped

\* C2 as amended: with a non-empty stack pop_screen returns the previous
\* content of the current-target slot (the target it deactivates), and none
\* when the stack was empty.
C2_PopReturnsPreviousTarget ==
    screen_call.op = "pop_screen"
        => screen_call.ret = IF screen_call.popped # None
                             THEN screen_call.pre_target
                             ELSE None

C2_Witness ==
    /\ screen_call.op = "pop_screen"
    /\ screen_call.popped # None
    /\ screen_call.pre_target # None
    /\ screen_call.pre_target # screen_call.popped
    /\ screen_call.ret = screen_call.pre_target
    /\ target_screen = screen_call.popped


\* C3: one effect(ctx, t) call invokes each queued effect function exactly
\* once, in registration order: the invocations of the call are the queued
\* closures, one each, in list order.
C3_EachEffectOnce ==
    effect_call.op = "effect"
        => [i \in 1..Len(effect_call.log) |-> effect_call.log[i].id]
                = Ids(effect_call.pre_list)

\* C4: after effect(ctx, t) the list holds exactly the effects that did not
\* signal EffectFinish when applied in that call, in their original order.
C4_KeepsExactlyUnfinished ==
    effect_call.op = "effect"
        => effects_list =
              SelectSeq(effect_call.pre_list,
                        LAMBDA f : f.id \notin Signaled(effect_call.log))

\* C5: an effect that reports EffectFinish in an effect call is absent from
\* the list after that call, and no later effect call invokes it.
C5_FinishedIsGone ==
    effect_call.op = "effect"
        => /\ \A i \in 1..Len(effects_list) :
                effects_list[i].id \notin Signaled(effect_call.log)
           /\ \A i \in 1..Len(effect_call.log) :
                effect_call.log[i].id \notin effect_call.earlier


\* C6: with a position function installed, a move_with_func(t) that returns
\* has called that function once, with the object as it stood and
\* elapsed = t - mf_set_time (the Clock subtraction: not t, not t - birth
\* time), and has set the position to the point returned; the same through
\* an EffectableWrap.
C6_MoveUsesElapsedSinceInstall ==
    (/\ move_call.op = "move_with_func"
     /\ move_call.outcome = "ok"
     /\ move_call.pre.move_func # None)
        => LET pre == move_call.pre
               f == pre.move_func[1]
               e == IF move_call.t >= pre.mf_set_time
                    THEN move_call.t - pre.mf_set_time
                    ELSE move_call.t - pre.mf_set_time + ClockModulus
           IN  /\ move_call.called = <<[f |-> f, elapsed |-> e, at |-> pre.position]>>
               /\ movable.position = MoveFn(f, pre, e)
               /\ movable = [pre EXCEPT !.position = movable.position]

C6_Witness ==
    /\ move_call.op = "move_with_func"
    /\ move_call.outcome = "ok"
    /\ move_call.pre.move_func = Some("linear")
    /\ movable.wrapped
    /\ movable.kind = "MovableUniTexture"
    /\ movable.birth_time = Some(1)
    /\ move_call.pre.mf_set_time = 2
    /\ move_call.t = 3
    /\ movable.position = <<1, 0>>
    /\ move_call.pre.position # movable.position

\* C7: after override_move_func(Some(f), now), whatever was installed before
\* and whenever the object was created, mf_start_timing() returns now and
\* move_with_func(now) sets the position to f(object, 0).
C7_OverrideRestartsElapsed ==
    /\ move_call.op = "override_move_func"
            => /\ mf_start_timing(movable) = move_call.t
               /\ movable.move_func = move_call.f
    /\ (/\ move_call.op = "move_with_func"
        /\ move_call.pre_installed.by = "override_move_func"
        /\ move_call.pre_installed.f # None
        /\ move_call.t = move_call.pre_installed.now)
            => /\ move_call.outcome = "ok"
               /\ Len(move_call.called) = 1
               /\ move_call.called[1].elapsed = 0
               /\ move_call.called[1].f = move_call.pre_installed.f[1]
               /\ movable.position =
                     MoveFn(move_call.pre_installed.f[1], move_call.pre, 0)
               /\ mf_start_timing(movable) = move_call.t

C7_Witness ==
    /\ move_call.op = "move_with_func"
    /\ move_call.pre_installed.by = "override_move_func"
    /\ move_call.pre_installed.f = Some("linear")
    /\ move_call.pre_installed.now = 2
    /\ move_call.t = 2
    /\ move_call.pre.position = <<1, 1>>
    /\ movable.position = <<0, 0>>
    /\ movable.birth_time = Some(1)

\* C8: override_move_func(None, now) freezes the object: is_stop() is true,
\* and every move_with_func(t) made while no function is installed returns
\* and leaves the position (and the object) unchanged; is_stop() is true
\* exactly when no position function is installed.
C8_NoneFreezes ==
    /\ (move_call.op = "override_move_func" /\ move_call.f = None)
            => is_stop(movable)
    /\ (move_call.op = "move_with_func" /\ move_call.pre_installed.f = None)
            => /\ move_call.outcome = "ok"
               /\ move_call.called = << >>
               /\ movable = move_call.pre
               /\ is_stop(movable)
    /\ (movable.kind # "none" /\ installed.f # None) => ~is_stop(movable)

C8_Witness ==
    /\ move_call.op = "move_with_func"
    /\ move_call.pre_installed.by = "override_move_func"
    /\ move_call.pre_installed.f = None
    /\ move_call.pre_installed.now = 2
    /\ move_call.t = 1
    /\ movable.position = <<2, 2>>
    /\ is_stop(movable)

\* C9: KeyboardListener::update classifies every tracked key from the status
\* stored for it and the status just polled: Released->Pressed is
\* FirstPressed, Pressed->Released is Typed, Pressed->Pressed is KeepPressed,
\* Released->Released is KeepReleased; the handlers it invokes are those
\* registered for that (key, event) pair, in order, and no others. The log
\* of an update that returns has one entry per listening position.
C9_KeyboardClassifies ==
    kb_call.op = "update" =>
        /\ keyboard.alive => Len(kb_call.log) = Len(keyboard.listening)
        /\ Len(kb_call.log) <= Len(keyboard.listening)
        /\ \A i \in 1..Len(kb_call.log) :
            LET e == kb_call.log[i]
                earlier == {j \in 1..(i - 1) : kb_call.log[j].key = e.key}
                stored == IF earlier = {}
                          THEN kb_call.pre_key_map[e.key]
                          ELSE kb_call.log[CHOOSE j \in earlier : \A k \in earlier : k <= j].cur
                down == /\ e.key \in kb_call.pressed
                        /\ e.key # VK_Unknown
                        /\ \E d \in 1..Len(keyboard.devices) :
                              keyboard.devices[d] = "GenericKeyboard"
                polled == IF down THEN "Pressed" ELSE "Released"
                expected == CASE stored = "Released" /\ polled = "Pressed" -> "FirstPressed"
                              [] stored = "Pressed" /\ polled = "Released" -> "Typed"
                              [] stored = "Pressed" /\ polled = "Pressed" -> "KeepPressed"
                              [] stored = "Released" /\ polled = "Released" -> "KeepReleased"
                registered == keyboard.event_handlers[e.key][expected]
                last == i = Len(kb_call.log) /\ ~keyboard.alive
            IN  /\ e.key = keyboard.listening[i]
                /\ e.prev = stored
                /\ e.cur = polled
                /\ e.event = expected
                /\ Len(e.ran) <= Len(registered)
                /\ \A k \in 1..Len(e.ran) : e.ran[k] = registered[k].id
                /\ ~last => Len(e.ran) = Len(registered)
                /\ last => ~registered[Len(e.ran)].ok

\* C9 witness: an update that found a key newly pressed ran the FirstPressed
\* handler of that key and left alone a handler registered for another event
\* of the same key.
C9_Witness ==
    /\ kb_call.op = "update"
    /\ keyboard.alive
    /\ \E i \in 1..Len(kb_call.log) :
        /\ kb_call.log[i].event = "FirstPressed"
        /\ kb_call.log[i].ran # << >>
        /\ \E ev \in KeyboardEvents \ {"FirstPressed"} :
              keyboard.event_handlers[kb_call.log[i].key][ev] # << >>

\* C10: MouseListener::update classifies each of Left, Middle, Right from the
\* stored status and the polled status: Released->Pressed is Pressed,
\* Pressed->Released is Clicked, Pressed->Pressed is Dragged, and
\* Released->Released invokes no handler; the handlers invoked are those
\* registered for that (button, event) pair, in order, and no others.
C10_MouseClassifies ==
    ms_call.op = "update" =>
        /\ mouse.alive => Len(ms_call.log) = Len(MouseButtons)
        /\ Len(ms_call.log) <= Len(MouseButtons)
        /\ \A i \in 1..Len(ms_call.log) :
            LET e == ms_call.log[i]
                stored == ms_call.pre_button_map[e.button]
                polled == IF e.button \in ms_call.pressed
                          THEN "MousePressed" ELSE "MouseReleased"
                expected == CASE stored = "MouseReleased" /\ polled = "MousePressed" -> Some("Pressed")
                              [] stored = "MousePressed" /\ polled = "MouseReleased" -> Some("Clicked")
                              [] stored = "MousePressed" /\ polled = "MousePressed" -> Some("Dragged")
                              [] stored = "MouseReleased" /\ polled = "MouseReleased" -> None
                registered == IF expected = None
                              THEN << >>
                              ELSE mouse.event_handlers[e.button][expected[1]]
                last == i = Len(ms_call.log) /\ ~mouse.alive
            IN  /\ e.button = MouseButtons[i]
                /\ e.prev = stored
                /\ e.cur = polled
                /\ e.event = expected
                /\ Len(e.ran) <= Len(registered)
                /\ \A k \in 1..Len(e.ran) : e.ran[k] = registered[k].id
                /\ ~last => Len(e.ran) = Len(registered)
                /\ last => ~registered[Len(e.ran)].ok

\* C10 witness: one update saw a release that ran the Clicked handler of that
\* button, not the handler registered for another event of the same button,
\* and saw another button stay released.
C10_Witness ==
    /\ ms_call.op = "update"
    /\ mouse.alive
    /\ \E i, j \in 1..Len(ms_call.log) :
        /\ ms_call.log[i].event = Some("Clicked")
        /\ ms_call.log[i].ran # << >>
        /\ \E ev \in MouseButtonEvents \ {"Clicked"} :
              mouse.event_handlers[ms_call.log[i].button][ev] # << >>
        /\ ms_call.log[j].prev = "MouseReleased"
        /\ ms_call.log[j].cur = "MouseReleased"
        /\ ms_call.log[j].event = None
        /\ ms_call.log[j].ran = << >>

\* C11 as stated: a new listener whose first three updates poll Released,
\* Pressed, Released for one input invokes, for that input, no handler in the
\* first update, only FirstPressed (mouse: Pressed) handlers in the second
\* and only Typed (mouse: Clicked) handlers in the third.
C11_OnlyPressThenRelease ==
    LET RPR == <<"Released", "Pressed", "Released">>
        MRPR == <<"MouseReleased", "MousePressed", "MouseReleased">>
        KbOnly == <<"none", "FirstPressed", "Typed">>
        MsOnly == <<"none", "Pressed", "Clicked">>
    IN  /\ Len(kb_trace) = 3 =>
            \A k \in {kb_trace[1][i].key : i \in 1..Len(kb_trace[1])} :
                (\A u \in 1..3 : \A i \in 1..Len(kb_trace[u]) :
                    kb_trace[u][i].key = k => kb_trace[u][i].cur = RPR[u])
                => \A u \in 1..3 : \A i \in 1..Len(kb_trace[u]) :
                    kb_trace[u][i].key = k =>
                        \A h \in 1..Len(kb_trace[u][i].ran) :
                            kb_trace[u][i].ran[h][2] = KbOnly[u]
        /\ Len(ms_trace) = 3 =>
            \A b \in MouseButtonSet :
                (\A u \in 1..3 : \A i \in 1..Len(ms_trace[u]) :
                    ms_trace[u][i].button = b => ms_trace[u][i].cur = MRPR[u])
                => \A u \in 1..3 : \A i \in 1..Len(ms_trace[u]) :
                    ms_trace[u][i].button = b =>
                        \A h \in 1..Len(ms_trace[u][i].ran) :
                            ms_trace[u][i].ran[h][2] = MsOnly[u]

\* C11 amended: a new listener whose first three updates poll Released,
\* Pressed, Released for one input. The mouse listener dispatches nothing,
\* then Pressed, then Clicked for that button. The keyboard listener
\* dispatches KeepReleased in the first update, then FirstPressed, then Typed
\* at the first listening entry of that key, and at every further listening
\* entry of the same key KeepReleased, KeepPressed, KeepReleased. Every
\* handler invoked for the input is one registered for the event dispatched.
C11_FirstUpdatesDispatch ==
    LET RPR == <<"Released", "Pressed", "Released">>
        MRPR == <<"MouseReleased", "MousePressed", "MouseReleased">>
        KbFirst == <<"KeepReleased", "FirstPressed", "Typed">>
        KbAgain == <<"KeepReleased", "KeepPressed", "KeepReleased">>
        MsEvent == <<None, Some("Pressed"), Some("Clicked")>>
    IN  /\ Len(kb_trace) = 3 =>
            \A k \in {kb_trace[1][i].key : i \in 1..Len(kb_trace[1])} :
                (\A u \in 1..3 : \A i \in 1..Len(kb_trace[u]) :
                    kb_trace[u][i].key = k => kb_trace[u][i].cur = RPR[u])
                => \A u \in 1..3 : \A i \in 1..Len(kb_trace[u]) :
                    LET e == kb_trace[u][i]
                        first == \A j \in 1..(i - 1) : kb_trace[u][j].key # k
                    IN  e.key = k =>
                            /\ e.event = IF first THEN KbFirst[u] ELSE KbAgain[u]
                            /\ \A h \in 1..Len(e.ran) : e.ran[h][2] = e.event
        /\ Len(ms_trace) = 3 =>
            \A b \in MouseButtonSet :
                (\A u \in 1..3 : \A i \in 1..Len(ms_trace[u]) :
                    ms_trace[u][i].button = b => ms_trace[u][i].cur = MRPR[u])
                => \A u \in 1..3 : \A i \in 1..Len(ms_trace[u]) :
                    LET e == ms_trace[u][i]
                    IN  e.button = b =>
                            /\ e.event = MsEvent[u]
                            /\ \A h \in 1..Len(e.ran) : Some(e.ran[h][2]) = e.event

\* C11 witness: the Left key of a new keyboard listener was polled Released,
\* Pressed, Released; its KeepReleased handler ran in the first update and
\* its FirstPressed handler in the second.
C11_Witness ==
    /\ Len(kb_trace) = 3
    /\ \A u \in 1..3 :
        /\ Len(kb_trace[u]) >= 1
        /\ kb_trace[u][1].key = VK_Left
        /\ kb_trace[u][1].cur = <<"Released", "Pressed", "Released">>[u]
    /\ kb_trace[1][1].ran = << <<VK_Left, "KeepReleased", 1>> >>
    /\ kb_trace[2][1].ran = << <<VK_Left, "FirstPressed", 1>> >>
    /\ kb_trace[3][1].event = "Typed"

\* C12: in every update of either listener each tracked input is classified
\* against the status stored by the previous update (Released before the
\* first update); the stored status is overwritten only after the input's
\* handlers were dispatched (a handler that aborts the update leaves the
\* status of its input as the previous update stored it); after an update
\* that returns, the stored status of every tracked input is the status
\* polled in that update.
C12_ClassifiedAgainstPreviousUpdate ==
    /\ kb_call.op \in {"new", "new_masked"} =>
            \A k \in VirtualKeys : keyboard.key_map[k] = "Released"
    /\ ms_call.op = "new" => \A b \in MouseButtonSet : mouse.button_map[b] = "MouseReleased"
    /\ kb_call.op = "update" =>
        /\ \A i \in 1..Len(kb_call.log) :
            LET e == kb_call.log[i]
                stored == kb_call.pre_key_map[e.key]
                expected == CASE stored = "Released" /\ e.cur = "Pressed" -> "FirstPressed"
                              [] stored = "Pressed" /\ e.cur = "Released" -> "Typed"
                              [] stored = "Pressed" /\ e.cur = "Pressed" -> "KeepPressed"
                              [] stored = "Released" /\ e.cur = "Released" -> "KeepReleased"
            IN  /\ e.prev = stored
                /\ e.event = expected
                /\ (~keyboard.alive /\ i = Len(kb_call.log)) =>
                        keyboard.key_map[e.key] = stored
        /\ keyboard.alive =>
            \A i \in 1..Len(keyboard.listening) :
                LET k == keyboard.listening[i]
                IN  keyboard.key_map[k] =
                        current_key_status(keyboard.devices, kb_call.pressed, k)
    /\ ms_call.op = "update" =>
        /\ \A i \in 1..Len(ms_call.log) :
            LET e == ms_call.log[i]
                stored == ms_call.pre_button_map[e.button]
                expected == CASE stored = "MouseReleased" /\ e.cur = "MousePressed" -> Some("Pressed")
                              [] stored = "MousePressed" /\ e.cur = "MouseReleased" -> Some("Clicked")
                              [] stored = "MousePressed" /\ e.cur = "MousePressed" -> Some("Dragged")
                              [] stored = "MouseReleased" /\ e.cur = "MouseReleased" -> None
            IN  /\ e.prev = stored
                /\ e.event = expected
                /\ ~mouse.alive => mouse.button_map[e.button] = stored
        /\ mouse.alive =>
            \A b \in MouseButtonSet : mouse.button_map[b] = check_button(ms_call.pressed, b)

\* C13: the handlers of one (input, event) pair are invoked in registration
\* order, each exactly once in an update that produces the event, and each
\* is handed the t given to update; register_event_handler appends to the
\* list of its pair and changes no other list; no call removes, replaces or
\* reorders a handler.
C13_RegistrationOrderOnce ==
    /\ kb_call.op = "update" =>
        /\ \A i \in 1..Len(kb_call.log) :
            LET e == kb_call.log[i]
                registered == keyboard.event_handlers[e.key][e.event]
            IN  /\ Len(e.ran) <= Len(registered)
                /\ \A h \in 1..Len(e.ran) : e.ran[h] = registered[h].id
                /\ (keyboard.alive \/ i < Len(kb_call.log)) => Len(e.ran) = Len(registered)
                /\ Len(e.got) = Len(e.ran)
                /\ \A h \in 1..Len(e.got) : e.got[h] = kb_call.t
        /\ \A i, j \in 1..Len(kb_call.log) :
            (i # j /\ kb_call.log[i].ran # << >> /\ kb_call.log[j].ran # << >>) =>
                \A h \in 1..Len(kb_call.log[i].ran), g \in 1..Len(kb_call.log[j].ran) :
                    kb_call.log[i].ran[h] # kb_call.log[j].ran[g]
    /\ ms_call.op = "update" =>
        /\ \A i \in 1..Len(ms_call.log) :
            LET e == ms_call.log[i]
                registered == IF e.event = None THEN << >>
                              ELSE mouse.event_handlers[e.button][e.event[1]]
            IN  /\ Len(e.ran) <= Len(registered)
                /\ \A h \in 1..Len(e.ran) : e.ran[h] = registered[h].id
                /\ (mouse.alive \/ i < Len(ms_call.log)) => Len(e.ran) = Len(registered)
                /\ Len(e.got) = Len(e.ran)
                /\ \A h \in 1..Len(e.got) : e.got[h] = ms_call.t
        /\ \A i, j \in 1..Len(ms_call.log) :
            (i # j /\ ms_call.log[i].ran # << >> /\ ms_call.log[j].ran # << >>) =>
                \A h \in 1..Len(ms_call.log[i].ran), g \in 1..Len(ms_call.log[j].ran) :
                    ms_call.log[i].ran[h] # ms_call.log[j].ran[g]
    /\ \A k \in VirtualKeys, ev \in KeyboardEvents :
        LET before == kb_call.pre_handlers[k][ev]
            after == keyboard.event_handlers[k][ev]
        IN  IF kb_call.op = "register_event_handler" /\ kb_call.arg = <<k, ev>>
            THEN Len(after) = Len(before) + 1 /\ SubSeq(after, 1, Len(before)) = before
            ELSE after = before
    /\ \A b \in MouseButtonSet, ev \in MouseButtonEvents :
        LET before == ms_call.pre_handlers[b][ev]
            after == mouse.event_handlers[b][ev]
        IN  IF ms_call.op = "register_event_handler" /\ ms_call.arg = <<b, ev>>
            THEN Len(after) = Len(before) + 1 /\ SubSeq(after, 1, Len(before)) = before
            ELSE after = before

\* C15: a handler that returns an error aborts update: no handler ordered
\* after it is invoked in that update (neither of its own pair nor of a later
\* input) and the statuses not yet committed keep their previous values. The
\* mouse listener commits none of its three buttons; the keyboard listener
\* has committed exactly the keys processed earlier in listening order. An
\* update that returns has invoked no failing handler.
C15_ErrorAborts ==
    /\ kb_call.op = "update" =>
        LET log == kb_call.log
            n == Len(log)
            ok(id) == keyboard.event_handlers[id[1]][id[2]][id[3]].ok
        IN  /\ keyboard.alive =>
                \A i \in 1..n : \A h \in 1..Len(log[i].ran) : ok(log[i].ran[h])
            /\ ~keyboard.alive =>
                /\ n >= 1 /\ n <= Len(keyboard.listening)
                /\ log[n].ran # << >>
                /\ ~ok(Last(log[n].ran))
                /\ \A i \in 1..n : \A h \in 1..Len(log[i].ran) :
                        (i < n \/ h < Len(log[n].ran)) => ok(log[i].ran[h])
                /\ \A i \in 1..n : log[i].key = keyboard.listening[i]
                /\ \A k \in VirtualKeys :
                        keyboard.key_map[k] =
                            IF \E i \in 1..(n - 1) : keyboard.listening[i] = k
                            THEN current_key_status(keyboard.devices, kb_call.pressed, k)
                            ELSE kb_call.pre_key_map[k]
    /\ ms_call.op = "update" =>
        LET log == ms_call.log
            n == Len(log)
            ok(id) == mouse.event_handlers[id[1]][id[2]][id[3]].ok
        IN  /\ mouse.alive =>
                \A i \in 1..n : \A h \in 1..Len(log[i].ran) : ok(log[i].ran[h])
            /\ ~mouse.alive =>
                /\ n >= 1 /\ n <= Len(MouseButtons)
                /\ log[n].ran # << >>
                /\ ~ok(Last(log[n].ran))
                /\ \A i \in 1..n : \A h \in 1..Len(log[i].ran) :
                        (i < n \/ h < Len(log[n].ran)) => ok(log[i].ran[h])
                /\ \A i \in 1..n : log[i].button = MouseButtons[i]
                /\ mouse.button_map = ms_call.pre_button_map

\* C15 witness: a keyboard update committed the Left key, then aborted in the
\* first of two handlers of the Right key, leaving the second one uncalled and
\* the status of Right as it was.
C15_Witness ==
    /\ kb_call.op = "update"
    /\ ~keyboard.alive
    /\ keyboard.listening = <<VK_Left, VK_Right>>
    /\ Len(kb_call.log) = 2
    /\ Len(kb_call.log[2].ran) = 1
    /\ Len(keyboard.event_handlers[VK_Right][kb_call.log[2].event]) = 2
    /\ kb_call.pre_key_map[VK_Left] = "Released"
    /\ keyboard.key_map[VK_Left] = "Pressed"
    /\ kb_call.log[2].cur = "Pressed"
    /\ keyboard.key_map[VK_Right] = "Released"

\* C14: get_last_clicked(button) is the cursor position polled by the latest
\* update that saw the button go from pressed to released, and (0, 0) before
\* any such update; other updates and the transitions of other buttons leave
\* it unchanged.
C14_LastClickedIsLatestRelease ==
    mouse.alive =>
        /\ \A b \in MouseButtonSet : get_last_clicked(mouse, b) = clicked_at[b]
        /\ ms_call.op = "update" =>
            \A b \in MouseButtonSet :
                (ms_call.pre_button_map[b] = "MousePressed" /\ b \notin ms_call.pressed)
                    => get_last_clicked(mouse, b) = ms_call.position

\* C14 witness: Left was released with the cursor at (9, 9) after Middle had
\* been released at (5, 5): each button reports its own release position.
C14_Witness ==
    /\ mouse.alive
    /\ ms_call.op = "update"
    /\ ms_call.position = <<9, 9>>
    /\ ms_call.pre_button_map["Left"] = "MousePressed"
    /\ "Left" \notin ms_call.pressed
    /\ ms_call.pre_button_map["Middle"] = "MouseReleased"
    /\ get_last_clicked(mouse, "Left") = <<9, 9>>
    /\ get_last_clicked(mouse, "Middle") = <<5, 5>>
    /\ get_last_clicked(mouse, "Right") = <<0, 0>>

\* C16: in MouseListener::update the status recorded for a button is the
\* host's pressed state of that same button, in device.rs and in the older
\* device/mod.rs alike: when only Left is pressed, no handler of Middle or
\* Right is invoked and their stored status stays Released.
C16_EachButtonPolledItself ==
    /\ (ms_call.op = "update" /\ mouse.alive) =>
        /\ \A b \in MouseButtonSet :
                mouse.button_map[b] =
                    IF b \in ms_call.pressed THEN "MousePressed" ELSE "MouseReleased"
        /\ (ms_call.pressed = {"Left"}
            /\ \A b \in {"Middle", "Right"} : ms_call.pre_button_map[b] = "MouseReleased") =>
                \A i \in 1..Len(ms_call.log) :
                    ms_call.log[i].button # "Left" => ms_call.log[i].ran = << >>
    /\ old_ms_call.op = "update" =>
        /\ \A b \in MouseButtonSet :
                old_mouse.button_map[b] =
                    IF b \in old_ms_call.pressed THEN "MousePressed" ELSE "MouseReleased"
        /\ (old_ms_call.pressed = {"Left"}
            /\ \A b \in {"Middle", "Right"} : old_ms_call.pre_button_map[b] = "MouseReleased") =>
                \A i \in 1..Len(old_ms_call.log) :
                    old_ms_call.log[i].button # "Left" => old_ms_call.log[i].ran = << >>

\* C17: a listener built with new_masked(devices, keys) tracks the keys of
\* the list it was given and no other: every update polls and dispatches only
\* those keys, a handler registered for another key is never invoked and the
\* stored status of another key stays Released. A listener built with
\* new(devices) tracks each of the 25 virtual keys exactly once.
C17_MaskedTracksOnlyItsKeys ==
    keyboard.built =>
        LET tracked == {keyboard.listening[i] : i \in 1..Len(keyboard.listening)}
        IN  /\ kb_call.op = "new_masked" => keyboard.listening = kb_call.arg
            /\ keyboard.made_by = "new_masked" =>
                    \A k \in VirtualKeys \ tracked : keyboard.key_map[k] = "Released"
            /\ keyboard.made_by = "new" =>
                /\ Len(keyboard.listening) = 25
                /\ \A k \in 0..24 :
                        Cardinality({i \in 1..Len(keyboard.listening) :
                                        keyboard.listening[i] = k}) = 1
                /\ (kb_call.op = "update" /\ keyboard.alive) =>
                        \A k \in 0..24 :
                            Cardinality({i \in 1..Len(kb_call.log) :
                                            kb_call.log[i].key = k}) = 1
            /\ kb_call.op = "update" =>
                    \A i \in 1..Len(kb_call.log) :
                        /\ kb_call.log[i].key \in tracked
                        /\ \A h \in 1..Len(kb_call.log[i].ran) :
                                kb_call.log[i].ran[h][1] \in tracked

\* C17 witness: a listener masked to Left alone, with a handler registered
\* for Right, was updated while Left and Right were both down: Left was
\* dispatched, Right was neither polled nor stored.
C17_Witness ==
    /\ keyboard.made_by = "new_masked"
    /\ keyboard.listening = <<VK_Left>>
    /\ keyboard.event_handlers[VK_Right]["FirstPressed"] # << >>
    /\ kb_call.op = "update"
    /\ kb_call.pressed = {VK_Left, VK_Right}
    /\ Len(kb_call.log) = 1
    /\ kb_call.log[1].event = "FirstPressed"
    /\ keyboard.key_map[VK_Left] = "Pressed"
    /\ keyboard.key_map[VK_Right] = "Released"

\* C18: for every drawable type, the wrappers included, a draw that finds
\* is_visible() false issues no host call and returns success (so a hide
\* takes effect on the very next draw).
C18_HiddenDrawIsNoOp ==
    (draw_call.op = "draw" /\ ~draw_call.was_visible) =>
        /\ draw_call.calls = << >>
        /\ draw_call.ret = "Ok"

\* C19: while the text limit N has not been changed after a push, the
\* overlay holds at most N lines, and they are the most recently pushed
\* lines in push order.
C19_AtMostLimitNewest ==
    (debug_screen # None /\ debug_call.steady) =>
        LET ds == debug_screen[1]
            pushed == debug_call.pushed
            keep == IF Len(pushed) < ds.text_limit THEN Len(pushed) ELSE ds.text_limit
        IN  /\ Len(ds.text) <= ds.text_limit
            /\ [i \in 1..Len(ds.text) |-> ds.text[i].line]
                    = SubSeq(pushed, Len(pushed) - keep + 1, Len(pushed))

\* C20: a returning add_batch_tile_position(tile_pos) queues one more sprite;
\* its origin is the f32 quotient of the u32 product tile_pos * tile_size
\* (its low 32 bits) by the image size, its extent the f32 quotient of the
\* tile size by the image size. With tile size (16, 16) on a 64x64 image,
\* tile position (2, 1) gives origin (32/64, 16/64) and extent (16/64, 16/64),
\* that is (1/2, 1/4) and (1/4, 1/4). A product over 32 bits either wraps or,
\* in a build with overflow checks, panics and queues nothing.
C20_TileSourceRectangle ==
    tile_call.op = "add_batch_tile_position" =>
        LET tb == tile_batch
            pos == tile_call.tile_pos
            \* (hi * 65536 + lo) * t for a tile size t below 65536:
            \* the product's low 32 bits and whether it needs more
            lo(k) == pos[k][2] * tb.tile_size[k][2]
            hi(k) == pos[k][1] * tb.tile_size[k][2] + (lo(k) \div 65536)
            over(k) == hi(k) >= 65536
            product(k) == <<hi(k) % 65536, lo(k) % 65536>>
            image(k) == tb.image_size[k]
        IN  /\ tb.tile_size[1][1] = 0 /\ tb.tile_size[2][1] = 0
            /\ IF ~tb.alive
               THEN /\ tile_call.overflow_checks
                    /\ over(1) \/ over(2)
                    /\ tb.sprite_batch = tile_call.pre_batch
               ELSE /\ tile_call.overflow_checks => (~over(1) /\ ~over(2))
                    /\ Len(tb.sprite_batch) = Len(tile_call.pre_batch) + 1
                    /\ Front(tb.sprite_batch) = tile_call.pre_batch
                    /\ LET s == Last(tb.sprite_batch)
                       IN  /\ s.x = [num |-> u32_as_f32(product(1)), den |-> image(1)]
                           /\ s.y = [num |-> u32_as_f32(product(2)), den |-> image(2)]
                           /\ s.w = [num |-> tb.tile_size[1], den |-> image(1)]
                           /\ s.h = [num |-> tb.tile_size[2], den |-> image(2)]
                           /\ (/\ tb.tile_size = <<U32Of(0, 16), U32Of(0, 16)>>
                               /\ tb.image_size = <<U32Of(0, 64), U32Of(0, 64)>>
                               /\ pos = <<U32Of(0, 2), U32Of(0, 1)>>) =>
                                    /\ s.x.num[1] = 0 /\ 2 * s.x.num[2] = 1 * s.x.den[2]
                                    /\ s.y.num[1] = 0 /\ 4 * s.y.num[2] = 1 * s.y.den[2]
                                    /\ s.w.num[1] = 0 /\ 4 * s.w.num[2] = 1 * s.w.den[2]
                                    /\ s.h.num[1] = 0 /\ 4 * s.h.num[2] = 1 * s.h.den[2]

\* C20 witness: on a 64x64 image with tile size (16, 16), tile position
\* (2, 1) was queued with origin (32/64, 16/64), and then tile position
\* (2^28 + 1, 1), whose product 2^32 + 16 wrapped to 16, with origin
\* (16/64, 16/64).
C20_Witness ==
    /\ tile_call.op = "add_batch_tile_position"
    /\ tile_batch.alive
    /\ tile_batch.tile_size = <<U32Of(0, 16), U32Of(0, 16)>>
    /\ tile_batch.image_size = <<U32Of(0, 64), U32Of(0, 64)>>
    /\ tile_call.tile_pos = <<U32Of(4096, 1), U32Of(0, 1)>>
    /\ Len(tile_batch.sprite_batch) = 2
    /\ tile_batch.sprite_batch[1] =
            [x |-> [num |-> U32Of(0, 32), den |-> U32Of(0, 64)],
             y |-> [num |-> U32Of(0, 16), den |-> U32Of(0, 64)],
             w |-> [num |-> U32Of(0, 16), den |-> U32Of(0, 64)],
             h |-> [num |-> U32Of(0, 16), den |-> U32Of(0, 64)]]
    /\ tile_batch.sprite_batch[2].x = [num |-> U32Of(0, 16), den |-> U32Of(0, 64)]

\* C21: each comparator returns Less iff depth(a) > depth(b), Greater iff
\* depth(a) < depth(b) and Equal iff the depths are equal, the three copies
\* agree on every pair of depths, and a list sorted with any of them holds
\* the same drawables in non-increasing depth (larger depth first).
C21_LargerDepthFirst ==
    /\ depth_call.op = "compare" =>
        /\ \A i \in 1..3 :
            /\ depth_call.ret[i] = "Less" <=> depth_call.a > depth_call.b
            /\ depth_call.ret[i] = "Greater" <=> depth_call.a < depth_call.b
            /\ depth_call.ret[i] = "Equal" <=> depth_call.a = depth_call.b
        /\ depth_call.ret[1] = depth_call.ret[2]
        /\ depth_call.ret[2] = depth_call.ret[3]
    /\ depth_call.op = "sort" =>
        /\ \A i \in 1..(Len(depth_list) - 1) :
                depth_list[i].depth >= depth_list[i + 1].depth
        /\ Len(depth_list) = Len(depth_call.pre)
        /\ {depth_list[i] : i \in 1..Len(depth_list)}
                = {depth_call.pre[i] : i \in 1..Len(depth_call.pre)}

\* C21 witness: a list holding depths -128, 127 and 0 in that order was
\* sorted into 127, 0, -128.
C21_Witness ==
    /\ depth_call.op = "sort"
    /\ [i \in 1..Len(depth_call.pre) |-> depth_call.pre[i].depth] = <<-128, 127, 0>>
    /\ [i \in 1..Len(depth_list) |-> depth_list[i].depth] = <<127, 0, -128>>

\* C22: is_visible() is true iff the latest of the hide and appear calls
\* made on a drawable was appear, and true when none was made, whatever the
\* kind of the drawable and whatever wrappers it was called through; a hide
\* or an appear changes neither the depth nor the position.
C22_LastToggleDecides ==
    /\ is_visible(drawable) <=> draw_call.last_toggle # "hide"
    /\ draw_call.op \in {"hide", "appear"} =>
        /\ drawable.depth = draw_call.pre_depth
        /\ drawable.pos = draw_call.pre_pos

\* C22 witness: an EffectableWrap around a MovableWrap, moved and given a
\* depth, was hidden (twice or more: it was already hidden) and then told to
\* appear: it is visible, with its depth and position as before.
C22_Witness ==
    /\ drawable.kinds = <<"EffectableWrap", "MovableWrap", "UniTexture">>
    /\ draw_call.op = "appear"
    /\ ~draw_call.was_visible
    /\ is_visible(drawable)
    /\ drawable.depth = 5
    /\ drawable.pos = 3

\* C23: get_birth_time() returns the clock value at which the object was
\* created, all through the object's life (in particular after an
\* override_move_func with a later now), for MovableUniTexture, MovableText,
\* MovableWrap and an EffectableWrap around any of them.
C23_BirthTimeIsCreation ==
    movable.kind # "none" => get_birth_time(movable) = installed.born

\* C24: add_effect appends the given functions, in the given order, after
\* the effects already queued, which stay in place, and leaves the wrapped
\* object alone; only clear_effect and an EffectFinish result take effects
\* out of the list.
C24_AddEffectAppends ==
    [][/\ effect_call'.op = "add_effect" =>
            /\ Len(effects_list') = Len(effects_list) + (next_effect' - next_effect)
            /\ SubSeq(effects_list', 1, Len(effects_list)) = effects_list
            /\ \A i \in 1..(next_effect' - next_effect) :
                    effects_list'[Len(effects_list) + i].id = next_effect + i
            /\ eff_object' = eff_object
       /\ effect_call'.op \notin {"clear_effect", "effect"} =>
            /\ Len(effects_list') >= Len(effects_list)
            /\ SubSeq(effects_list', 1, Len(effects_list)) = effects_list
       /\ effect_call'.op = "effect" =>
            \A i \in 1..Len(effects_list) :
                (\A j \in 1..Len(effects_list') : effects_list'[j] # effects_list[i])
                    => effects_list[i].id \in Signaled(effect_call'.log)
      ]_vars

\* C24 witness: two effects were added to a list that already held one.
C24_Witness ==
    /\ effect_call.op = "add_effect"
    /\ Len(effect_call.pre_list) = 1
    /\ Len(effects_list) = 3
    /\ Ids(effects_list) = <<1, 2, 3>>

\* C25: a pop_screen that finds the screen stack empty unbinds the host
\* canvas (the window is the render target), leaves none in the
\* current-target slot and an empty stack, and returns none; so does every
\* further pop_screen.
C25_EmptyPopFallsBackToWindow ==
    (screen_call.op = "pop_screen" /\ screen_call.popped = None) =>
        /\ canvas = None
        /\ target_screen = None
        /\ screen_stack = << >>
        /\ screen_call.ret = None

\* C25 witness: pop_screen found the stack empty while a sub-screen was the
\* current target.
C25_Witness ==
    /\ screen_call.op = "pop_screen"
    /\ screen_call.popped = None
    /\ screen_call.pre_target # None
    /\ target_screen = None
    /\ canvas = None

\* C27: every update that returns classifies each tracked key exactly once
\* (one log entry per key named in the listening list), whatever list
\* new_masked was given, a list naming a key twice included.
C27_EachKeyClassifiedOnce ==
    (kb_call.op = "update" /\ keyboard.alive) =>
        \A k \in {keyboard.listening[i] : i \in 1..Len(keyboard.listening)} :
            Cardinality({i \in 1..Len(kb_call.log) : kb_call.log[i].key = k}) = 1

\* The events dispatched for one key over the recorded updates, in order.
RECURSIVE KeyEventsOf(_, _, _)
KeyEventsOf(trace, k, u) ==
    IF u > Len(trace)
    THEN << >>
    ELSE LET mine == SelectSeq(trace[u], LAMBDA e : e.key = k)
         IN  [i \in 1..Len(mine) |-> mine[i].event] \o KeyEventsOf(trace, k, u + 1)

\* The events dispatched for one button over the recorded updates, in order
\* ("none" for an update that dispatched nothing for it).
RECURSIVE ButtonEventsOf(_, _, _)
ButtonEventsOf(trace, b, u) ==
    IF u > Len(trace)
    THEN << >>
    ELSE LET mine == SelectSeq(trace[u], LAMBDA e : e.button = b)
         IN  [i \in 1..Len(mine) |->
                 IF mine[i].event = None THEN "none" ELSE mine[i].event[1]]
             \o ButtonEventsOf(trace, b, u + 1)

\* A press opens, a release closes, a keep-pressed or drag happens only
\* while open, and anything else only while closed.
RECURSIVE Alternates(_, _, _)
Alternates(events, i, down) ==
    IF i > Len(events)
    THEN TRUE
    ELSE CASE events[i] \in {"FirstPressed", "Pressed"} ->
                  ~down /\ Alternates(events, i + 1, TRUE)
           [] events[i] \in {"Typed", "Clicked"} ->
                  down /\ Alternates(events, i + 1, FALSE)
           [] events[i] \in {"KeepPressed", "Dragged"} ->
                  down /\ Alternates(events, i + 1, TRUE)
           [] OTHER ->
                  ~down /\ Alternates(events, i + 1, FALSE)

\* C29: over the updates of a listener, for each key (button), FirstPressed
\* (Pressed) and Typed (Clicked) alternate starting with FirstPressed
\* (Pressed), and KeepPressed (Dragged) occurs only between a FirstPressed
\* (Pressed) and the Typed (Clicked) that follows it.
C29_PressAndReleaseAlternate ==
    /\ \A k \in VirtualKeys : Alternates(KeyEventsOf(kb_trace, k, 1), 1, FALSE)
    /\ \A b \in MouseButtonSet : Alternates(ButtonEventsOf(ms_trace, b, 1), 1, FALSE)

\* C29 witness: a key named twice in the listening list went down, stayed
\* down and came up over three updates.
C29_Witness ==
    /\ keyboard.listening = <<VK_Left, VK_Left>>
    /\ KeyEventsOf(kb_trace, VK_Left, 1) =
           <<"FirstPressed", "KeepPressed", "KeepPressed", "KeepPressed", "Typed", "KeepReleased">>

\* C28: move_with_func(t) never aborts and never hands the position function
\* a wrapped-around elapsed value: whatever t and the installation time are,
\* the elapsed value the function receives, added to mf_set_time, is t.
C28_ElapsedNeverUnderflows ==
    move_call.op = "move_with_func" =>
        /\ move_call.outcome # "panic"
        /\ \A i \in 1..Len(move_call.called) :
               move_call.called[i].elapsed + move_call.pre.mf_set_time = move_call.t

\* C30: in the coordinate-offset variant the screen stack always holds an
\* even number of entries (two per open stack_screen); a pop_screen that
\* closes a stack_screen returns the screen passed to it and puts the target
\* back to the position and size it had before that stack_screen; a
\* pop_screen on the empty stack returns none and leaves the target as it is.
C30_OffsetStackBalanced ==
    /\ Len(draw_screen_stack) = 2 * Len(offset_saved)
    /\ offset_call.op = "pop_screen" =>
           IF offset_call.pre_saved # << >>
           THEN /\ offset_call.ret = Some(Last(offset_call.pre_saved).arg)
                /\ draw_target_screen = Last(offset_call.pre_saved).target
           ELSE /\ offset_call.ret = None
                /\ draw_target_screen = offset_call.pre_target
                /\ draw_screen_stack = << >>

\* C30 witness: the inner of two nested stack_screen calls was closed; the
\* target is back to the moved target the outer call left, and the inner
\* argument was returned.
C30_Witness ==
    /\ offset_call.op = "pop_screen"
    /\ Len(offset_call.pre_saved) = 2
    /\ offset_call.pre_saved[1].target = DrawStackScreen(<<0, 0>>, <<4, 3>>)
    /\ offset_call.pre_saved[1].arg = DrawStackScreen(<<1, 2>>, <<4, 3>>)
    /\ offset_call.pre_saved[2].arg = DrawStackScreen(<<1, 2>>, <<0, 0>>)
    /\ offset_call.pre_target = DrawStackScreen(<<2, 4>>, <<4, 3>>)
    /\ draw_target_screen = DrawStackScreen(<<1, 2>>, <<4, 3>>)
    /\ offset_call.ret = Some(DrawStackScreen(<<1, 2>>, <<0, 0>>))

\* C26: for an event made by new(func, call_abs), get_scheduled() returns
\* call_abs before and after any number of call_event calls; call_event(args)
\* calls func exactly once, with args, and in the Result-returning revision
\* returns what func returned.
C26_ScheduledEventContract ==
    /\ sched_event # None => get_scheduled(sched_event[1]) = event_made.call_abs
    /\ event_call.op = "get_scheduled" => event_call.ret = event_made.call_abs
    /\ event_call.op = "call_event" =>
           /\ event_invoked = Append(event_call.pre_invoked,
                                     [func |-> event_made.func, args |-> event_call.args])
           /\ event_made.revision = "result" =>
                  event_call.ret = IF event_made.func = "returns_ok" THEN "Ok" ELSE "Err"

\* C26 witness: an event scheduled for 10 in the Result-returning revision,
\* whose function fails, was called twice and then asked for its time.
C26_Witness ==
    /\ event_made = [revision |-> "result", func |-> "returns_err", call_abs |-> 10]
    /\ event_invoked = <<[func |-> "returns_err", args |-> 10],
                         [func |-> "returns_err", args |-> 11]>>
    /\ event_call.op = "get_scheduled"
    /\ event_call.ret = 10

=============================================================================
